---- MODULE Spec2Model ----
(***************************************************************************)
(* StarPU: the arbiter protocol for data handles (the opportunistic        *)
(* solution of the dining-philosophers problem), data_arbiter_concurrency. *)
(* One thread per task: it submits the task (try-acquire) and, once the    *)
(* task has been pushed to the scheduler, executes its termination (the    *)
(* release of each handle followed by the notify of its arbiter).          *)
(* A step of a thread is the acquisition of a lock, or the critical        *)
(* section of a header_lock (up to its unlock), or the release of the      *)
(* arbiter mutex, or the call of _starpu_push_task.                        *)
(***************************************************************************)
EXTENDS Integers, Sequences, FiniteSets, TLC

\* The application's tasks take the first NumShapes ordered buffer lists of
\* Shapes; the counters of pushes and terminations saturate at MaxPush.
NumShapes == 5
MaxPush == 2
\* The number of iterations of the submit-then-wait loop of the latency test.
ntasks == 2
\* The number of calls to starpu_initialize.
MaxCalls == 3
\* The number of calls to starpu_pause.
MaxPauses == 2
\* In the specification of the submissions made in order, the tasks take the
\* first SeqShapes ordered buffer lists.
SeqShapes == 3

Tasks == {1, 2, 3}
Handles == {1, 2, 3}
Arbiters == {1, 2}
NULL == 0

\* The (handle, arbiter) pairs the application passes to
\* starpu_data_assign_arbiter.
AssignCalls == {<<1, 1>>, <<2, 1>>, <<3, 1>>, <<3, 2>>}

Buf(h, m) == [handle |-> h, mode |-> m]

\* The ordered buffer lists of the tasks the application submits: sorted by
\* arbiter then handle, the entries of one handle adjacent, writes first.
Shapes ==
  << << Buf(1, "W") >>,
     << Buf(2, "W") >>,
     << Buf(1, "W"), Buf(2, "W") >>,
     << Buf(2, "W"), Buf(3, "W") >>,
     << Buf(1, "W"), Buf(1, "R"), Buf(2, "W") >>,
     << Buf(3, "W") >>,
     << Buf(1, "W"), Buf(1, "R") >>,
     << Buf(1, "R") >>,
     << Buf(1, "WC") >>,
     << >> >>

\* The reader of handle 1, its commuting writer (W|COMMUTE) and the task with
\* no buffer.
ReadShape == 8
CommuteShape == 9
EmptyShape == 10

\* pconfig->topology.nworkers, and the workers of the machine.
nworkers == 3
Workers == 0 .. nworkers - 1

\* pconfig->workers[]: the first ncuda workers drive CUDA devices, one worker
\* set for each of them or one set for all of them; the others drive CPUs.
\* The set is named by its first worker (worker_set->workers).
Machine(ncuda, shared) ==
  [w \in Workers |->
     IF w < ncuda
       THEN [arch |-> "STARPU_CUDA_WORKER",
             devid |-> IF shared THEN 0 ELSE w,
             set |-> IF shared THEN 0 ELSE w]
       ELSE [arch |-> "STARPU_CPU_WORKER", devid |-> w - ncuda, set |-> w]]

Machines == {Machine(n, sh) : n \in Workers, sh \in BOOLEAN}

\* cuda-latency.c: the two threads of launch_gpu_thread, in the order of
\* their creation, and the thread of main; no thread holds a free mutex.
GpuThreads == {0, 1}
Main == 2
NoThread == -1

\* struct starpu_driver: a type and the id of the device.
Drivers ==
  [type : {"STARPU_CPU_WORKER", "STARPU_CUDA_WORKER"}, id : Workers]

VARIABLES
  arbiter,            \* handle->arbiter (NULL: none)
  refcnt,             \* handle->refcnt
  busy_count,         \* handle->busy_count
  current_mode,       \* handle->current_mode
  arbitered_req_list, \* handle->arbitered_req_list, head first (<<>>: NULL)
  header_lock,        \* handle->header_lock: the thread holding it, or 0
  mutex,              \* arbiter->mutex: the thread holding it, or 0
  shape,              \* the ordered buffer list of each task (index in Shapes)
  submitted,          \* the task was submitted
  ready,              \* pushes of the task not yet taken by a worker
  pushed,             \* calls of _starpu_push_task on the task
  done,               \* terminations of the task
  loc,                \* each thread's position and local variables
  torel,              \* the handles the terminating task has still to release
  holder,             \* history: the jobs on whose behalf refcnt was taken
  fifo,               \* history: per handle, the parked jobs in parking order
  parked,             \* history: try-acquire returned with the task parked
  abort,              \* "": running; else the assertion or fault that ended it
  working,            \* arbiter->working (LOCK_OR_DELEGATE)
  dlTaskListHead,     \* arbiter->dlTaskListHead, head first (<<>>: NULL)
  dlListLock,         \* arbiter->dlListLock: the thread holding it, or 0
  lod,                \* position of each thread in _starpu_LockOrDelegatePostOrPerform
  posted,             \* history: the functions handed to the arbiter
  executed,           \* history: the functions the arbiter has executed
  twice,              \* history: the functions executed more than once
  queue,              \* handle->queue of a non-arbitered handle, head first
  unmet,              \* task->unmet: the buffers of the task not yet granted
  walk,               \* who walks the buffer list of the task, if anybody
  init_mutex,         \* the thread holding init_mutex, or 0
  init_cond,          \* the threads waiting on init_cond
  init_count,         \* static int init_count
  initialized,        \* UNINITIALIZED, CHANGING or INITIALIZED
  wloc,               \* position of each thread in starpu_initialize/shutdown
  tally,              \* history: the calls made, counted, failed, succeeded
  owed,               \* history: own initializations not yet shut down
  pause_depth,        \* _starpu_config.pause_depth
  pause_mutex,        \* the thread holding pause_mutex, or 0
  pause_cond,         \* the threads waiting on pause_cond
  ploc,               \* position of each thread in the pause functions
  pconfig,            \* the topology and the conf of _starpu_launch_drivers
  run_by_starpu,      \* workerarg->run_by_starpu of each worker
  worker_is_initialized, \* workerarg->worker_is_initialized of each worker
  set_is_initialized, \* worker_set->set_is_initialized, by first worker
  worker_thread,      \* the thread created for each worker, and how far it is
  ld,                 \* position of the thread in _starpu_launch_drivers
  we,                 \* the call of _starpu_worker_exists[_and_can_execute]
  lat,                \* the static variables of cuda-latency.c, and main's id
  lth                 \* position and locals of main and of the GPU threads

hvars == <<arbiter, refcnt, busy_count, current_mode, arbitered_req_list,
           header_lock, mutex>>
tvars == <<shape, submitted, ready, pushed, done>>
gvars == <<holder, fifo, parked>>
lvars == <<working, dlTaskListHead, dlListLock, lod, posted, executed, twice>>
\* The variables of the other components, which the arbiter with its mutex
\* leaves alone.
dvars == <<queue, unmet, walk>>
pvars == <<pause_depth, pause_mutex, pause_cond, ploc>>
\* The variables of _starpu_launch_drivers and of the worker threads.
lnvars == <<pconfig, run_by_starpu, worker_is_initialized, set_is_initialized,
            worker_thread, ld>>
wvars == <<init_mutex, init_cond, init_count, initialized, wloc, tally, owed,
           pvars, lnvars, we, lat, lth>>
xvars == <<lvars, dvars, wvars>>
vars == <<arbiter, refcnt, busy_count, current_mode, arbitered_req_list,
          header_lock, mutex, shape, submitted, ready, pushed, done, loc,
          torel, holder, fifo, parked, abort, xvars>>

\* ------------------------------------------------- the ordered buffers
STARPU_TASK_GET_NBUFFERS(j) == Len(Shapes[shape[j]])
ORDERED_BUFFER_HANDLE(j, i) == Shapes[shape[j]][i + 1].handle
ORDERED_BUFFER_MODE(j, i) == Shapes[shape[j]][i + 1].mode

\* "We have already requested this data, skip it."
AlreadyRequested(j, i) ==
  i > 0 /\ ORDERED_BUFFER_HANDLE(j, i - 1) = ORDERED_BUFFER_HANDLE(j, i)

\* The index at which a loop "for (i; i < limit; i++) { if (already
\* requested) continue; ..." reaches its body, or limit.
RECURSIVE SkipRequested(_, _, _)
SkipRequested(j, i, limit) ==
  IF i < limit /\ AlreadyRequested(j, i)
  THEN SkipRequested(j, i + 1, limit)
  ELSE IF i < limit THEN i ELSE limit

\* The distinct handles of a task.
HandlesOf(j) ==
  {ORDERED_BUFFER_HANDLE(j, i) : i \in 0..(STARPU_TASK_GET_NBUFFERS(j) - 1)}

\* "find the position of arbiter buffers"
RECURSIVE FindArbiterBuffers(_, _, _)
FindArbiterBuffers(j, a, i) ==
  IF i >= STARPU_TASK_GET_NBUFFERS(j) THEN STARPU_TASK_GET_NBUFFERS(j)
  ELSE IF AlreadyRequested(j, i) THEN FindArbiterBuffers(j, a, i + 1)
  ELSE IF arbiter[ORDERED_BUFFER_HANDLE(j, i)] = a THEN i
  ELSE FindArbiterBuffers(j, a, i + 1)

\* ------------------------------------------------------ requester lists
Requester(j, i, m) == [j |-> j, buffer_index |-> i, mode |-> m, freed |-> FALSE]

\* The position of the first requester of job j in the list, or 0.
RECURSIVE FirstOf(_, _, _)
FirstOf(l, j, p) ==
  IF p > Len(l) THEN 0
  ELSE IF l[p].j = j THEN p
  ELSE FirstOf(l, j, p + 1)

RemoveAt(l, p) == SubSeq(l, 1, p - 1) \o SubSeq(l, p + 1, Len(l))

\* The first position of job j in a sequence of jobs, or 0.
RECURSIVE FirstJob(_, _, _)
FirstJob(s, j, p) ==
  IF p > Len(s) THEN 0
  ELSE IF s[p] = j THEN p
  ELSE FirstJob(s, j, p + 1)

Min(a, b) == IF a < b THEN a ELSE b

\* --------------------------------------------------------------- threads
Idle == [pc |-> "idle", ctx |-> "none", j |-> 0, arbiter |-> NULL,
         handle |-> 0, nb_non_arbitered_buff |-> 0, idx_buf_arbiter |-> 0,
         idx_buf_cancel |-> 0, all_arbiter_available |-> 1, r |-> 0,
         promoted |-> 0]

At(th, p) == abort = "" /\ loc[th].pc = p

\* A function posted to the arbiter with its argument: the try-acquire of job j
\* (___starpu_submit_job_enforce_arbitered_deps) or the notification of
\* handle h by the thread terminating job j
\* (___starpu_notify_arbitered_dependencies).
NoFunc == [kind |-> "none", j |-> 0, h |-> 0]

LodIdle == [pc |-> "idle", ctx |-> "none", func |-> NoFunc, cur |-> NoFunc,
            origin |-> "none", iter |-> <<>>]

\* starpu_arbiter_create leaves the delegation list empty and nobody working.
LodInit ==
  /\ working = 0
  /\ dlTaskListHead = <<>>
  /\ dlListLock = 0
  /\ lod = [t \in Tasks |-> LodIdle]
  /\ posted = {}
  /\ executed = {}
  /\ twice = {}

\* "static int init_count = 0; static enum initialization initialized =
\* UNINITIALIZED;" and no thread in a call.
WorkersVarsInit ==
  /\ init_mutex = 0
  /\ init_cond = {}
  /\ init_count = 0
  /\ initialized = "UNINITIALIZED"
  /\ wloc = [t \in Tasks |-> [pc |-> "out", conf |-> "none", next |-> "none"]]
  /\ tally = [initialize |-> 0, counted |-> 0, failed |-> 0, ok |-> 0,
              shutdown |-> 0, decremented |-> 0]
  /\ owed = [t \in Tasks |-> 0]
  /\ pause_depth = 0
  /\ pause_mutex = 0
  /\ pause_cond = {}
  /\ ploc = [t \in Tasks |-> [pc |-> "out", tmp |-> 0, paused |-> 0, calls |-> 0]]
  /\ pconfig = [workers |-> Machine(0, FALSE), not_launched_drivers |-> {}]
  /\ run_by_starpu = [w \in Workers |-> 1]
  /\ worker_is_initialized = [w \in Workers |-> 0]
  /\ set_is_initialized = [w \in Workers |-> 0]
  /\ worker_thread = [w \in Workers |-> "none"]
  /\ ld = [pc |-> "out", worker |-> 0]
  /\ we = [pc |-> "out"]
  /\ lat = [thread_is_initialized |-> [d \in GpuThreads |-> 0],
            mutex |-> NoThread, cond |-> {}, cond_go |-> {}, ready |-> 0,
            nready_gpu |-> 0, niter |-> 0, mutex_gpu |-> NoThread,
            cond_gpu |-> {}, data_is_available |-> [d \in GpuThreads |-> 0],
            id |-> 0]
  /\ lth = [th \in GpuThreads \cup {Main} |->
             [pc |-> IF th = Main THEN "m_start" ELSE "none", id |-> 0,
              iter |-> 0, sends |-> 0, recvs |-> 0]]

\* A handle is registered with an empty queue; no task is being dispatched.
DispatchVarsInit ==
  /\ queue = [h \in Handles |-> <<>>]
  /\ unmet = [t \in Tasks |-> 0]
  /\ walk = [t \in Tasks |-> "none"]

Goto(th, p) == loc' = [loc EXCEPT ![th].pc = p]

InitShapes(S) ==
  /\ arbiter = [h \in Handles |-> NULL]
  /\ refcnt = [h \in Handles |-> 0]
  /\ busy_count = [h \in Handles |-> 0]
  /\ current_mode = [h \in Handles |-> "NONE"]
  /\ arbitered_req_list = [h \in Handles |-> <<>>]
  /\ header_lock = [h \in Handles |-> 0]
  /\ mutex = [a \in Arbiters |-> 0]
  /\ shape \in S
  /\ submitted = [t \in Tasks |-> FALSE]
  /\ ready = [t \in Tasks |-> 0]
  /\ pushed = [t \in Tasks |-> 0]
  /\ done = [t \in Tasks |-> 0]
  /\ loc = [t \in Tasks |-> Idle]
  /\ torel = [t \in Tasks |-> {}]
  /\ holder = [h \in Handles |-> {}]
  /\ fifo = [h \in Handles |-> <<>>]
  /\ parked = [t \in Tasks |-> FALSE]
  /\ abort = ""
  /\ LodInit
  /\ DispatchVarsInit
  /\ WorkersVarsInit

\* The tasks are interchangeable: their shapes are taken in increasing order.
Init ==
  InitShapes({s \in [Tasks -> 1..NumShapes] :
                \A t \in Tasks : t > 1 => s[t - 1] <= s[t]})


\* A loop over the buffers reaches its body at index k (the duplicates
\* skipped) when k is below the limit and the handle is one of the arbiter.
InBody(j, a, k, limit) ==
  k < limit /\ arbiter[ORDERED_BUFFER_HANDLE(j, k)] = a

\* What a function does when it returns: the submission ends; a notify
\* called at the termination of a task goes on with the next handle.
Returned(th) ==
  IF loc[th].ctx = "submit" \/ torel[th] = {}
  THEN Idle
  ELSE [Idle EXCEPT !.pc = "rel", !.ctx = "notify"]

Finishes(th) == loc[th].ctx = "notify" /\ torel[th] = {}

\* The application registers its handles, may acquire and release them, and
\* assigns their arbiters before it submits its first task.
InSetup == \A t \in Tasks : ~submitted[t]

\* --------------------------------------------- starpu_data_assign_arbiter
\* Variant: the first assertion is missing.
starpu_data_assign_arbiter_Unchecked(h, a) ==
  /\ abort = "" /\ InSetup
  /\ IF refcnt[h] # 0 \/ busy_count[h] # 0
     THEN abort' = "arbiter can be assigned to handle only right after initialization"
          /\ UNCHANGED arbiter
     ELSE arbiter' = [arbiter EXCEPT ![h] = a] /\ UNCHANGED abort
  /\ UNCHANGED <<refcnt, busy_count, current_mode, arbitered_req_list,
                 header_lock, mutex, tvars, loc, torel, gvars>>
  /\ UNCHANGED xvars

starpu_data_assign_arbiter(h, a) ==
  /\ abort = "" /\ InSetup
  /\ IF arbiter[h] # NULL
     THEN abort' = "handle can only be assigned one arbiter" /\ UNCHANGED arbiter
     ELSE IF refcnt[h] # 0 \/ busy_count[h] # 0
     THEN abort' = "arbiter can be assigned to handle only right after initialization"
          /\ UNCHANGED arbiter
     ELSE arbiter' = [arbiter EXCEPT ![h] = a] /\ UNCHANGED abort
  /\ UNCHANGED <<refcnt, busy_count, current_mode, arbitered_req_list,
                 header_lock, mutex, tvars, loc, torel, gvars>>
  /\ UNCHANGED xvars

\* ------------------------- user-side acquisition of a non-arbitered handle
starpu_data_acquire(h) ==
  /\ abort = "" /\ InSetup
  /\ arbiter[h] = NULL /\ refcnt[h] = 0 /\ header_lock[h] = 0
  /\ refcnt' = [refcnt EXCEPT ![h] = 1]
  /\ busy_count' = [busy_count EXCEPT ![h] = @ + 1]
  /\ current_mode' = [current_mode EXCEPT ![h] = "R"]
  /\ holder' = [holder EXCEPT ![h] = {0}]
  /\ UNCHANGED <<arbiter, arbitered_req_list, header_lock, mutex, tvars, loc,
                 torel, fifo, abort,
                 parked>>
  /\ UNCHANGED xvars

starpu_data_release(h) ==
  /\ abort = "" /\ InSetup
  /\ arbiter[h] = NULL /\ 0 \in holder[h] /\ header_lock[h] = 0
  /\ refcnt' = [refcnt EXCEPT ![h] = @ - 1]
  /\ busy_count' = [busy_count EXCEPT ![h] = @ - 1]
  /\ holder' = [holder EXCEPT ![h] = {}]
  /\ UNCHANGED <<arbiter, current_mode, arbitered_req_list, header_lock, mutex,
                 tvars, loc, torel, fifo, abort,
                 parked>>
  /\ UNCHANGED xvars

\* ------------------------------ _starpu_submit_job_enforce_arbitered_deps
\* The call made at the submission of task t, all of whose buffers are
\* arbitered (buf = 0).
Submit(t) ==
  /\ At(t, "idle") /\ ~submitted[t]
  /\ \A h \in Handles : arbiter[h] # NULL
  /\ submitted' = [submitted EXCEPT ![t] = TRUE]
  /\ loc' = [loc EXCEPT ![t] =
        [Idle EXCEPT !.pc = "ta_mutex", !.ctx = "submit", !.j = t,
                     !.arbiter = arbiter[ORDERED_BUFFER_HANDLE(t, 0)]]]
  /\ UNCHANGED <<hvars, shape, ready, pushed, done, torel, gvars, abort>>
  /\ UNCHANGED xvars

\* STARPU_PTHREAD_MUTEX_LOCK(&arbiter->mutex), then the entry of the loop.
TaMutex(th) ==
  /\ At(th, "ta_mutex")
  /\ mutex[loc[th].arbiter] = 0
  /\ mutex' = [mutex EXCEPT ![loc[th].arbiter] = th]
  /\ LET l == loc[th]
         k == SkipRequested(l.j, l.nb_non_arbitered_buff,
                            STARPU_TASK_GET_NBUFFERS(l.j))
     IN loc' = [loc EXCEPT ![th] =
          [l EXCEPT !.idx_buf_arbiter = k, !.all_arbiter_available = 1,
                    !.pc = IF InBody(l.j, l.arbiter, k,
                                     STARPU_TASK_GET_NBUFFERS(l.j))
                           THEN "ta_loop" ELSE "ta_unlock"]]
  /\ UNCHANGED <<arbiter, refcnt, busy_count, current_mode, arbitered_req_list,
                 header_lock, tvars, torel, gvars, abort>>
  /\ UNCHANGED xvars

\* _starpu_spin_lock(&handle->header_lock) of the try loop.
TaLoop(th) ==
  /\ At(th, "ta_loop")
  /\ LET h == ORDERED_BUFFER_HANDLE(loc[th].j, loc[th].idx_buf_arbiter)
     IN /\ header_lock[h] = 0
        /\ header_lock' = [header_lock EXCEPT ![h] = th]
  /\ Goto(th, "ta_take")
  /\ UNCHANGED <<arbiter, refcnt, busy_count, current_mode, arbitered_req_list,
                 mutex, tvars, torel, gvars, abort>>
  /\ UNCHANGED xvars

\* Variant: a handle that is not free is passed over and the loop goes on.
TaTake_Unchecked(th) ==
  /\ At(th, "ta_take")
  /\ LET l == loc[th]
         n == STARPU_TASK_GET_NBUFFERS(l.j)
         h == ORDERED_BUFFER_HANDLE(l.j, l.idx_buf_arbiter)
         k == SkipRequested(l.j, l.idx_buf_arbiter + 1, n)
         c == SkipRequested(l.j, l.nb_non_arbitered_buff, l.idx_buf_arbiter)
     IN /\ header_lock' = [header_lock EXCEPT ![h] = 0]
        /\ IF refcnt[h] = 0
           THEN /\ refcnt' = [refcnt EXCEPT ![h] = @ + 1]
                /\ busy_count' = [busy_count EXCEPT ![h] = @ + 1]
                /\ current_mode' = [current_mode EXCEPT ![h] =
                                      ORDERED_BUFFER_MODE(l.j, l.idx_buf_arbiter)]
                /\ holder' = [holder EXCEPT ![h] = @ \cup {l.j}]
                /\ loc' = [loc EXCEPT ![th] =
                     [l EXCEPT !.idx_buf_arbiter = k,
                               !.pc = IF InBody(l.j, l.arbiter, k, n)
                                      THEN "ta_loop" ELSE "ta_unlock"]]
           ELSE /\ UNCHANGED <<refcnt, busy_count, current_mode, holder>>
                /\ loc' = [loc EXCEPT ![th] =
                     [l EXCEPT !.idx_buf_arbiter = k,
                               !.pc = IF InBody(l.j, l.arbiter, k, n)
                                      THEN "ta_loop" ELSE "ta_unlock"]]
  /\ UNCHANGED <<arbiter, arbitered_req_list, mutex, tvars, torel, fifo, abort,
                 parked>>
  /\ UNCHANGED xvars

\* Variant: a reader also takes a handle that readers hold.
TaTake_SharedRead(th) ==
  /\ At(th, "ta_take")
  /\ LET l == loc[th]
         n == STARPU_TASK_GET_NBUFFERS(l.j)
         h == ORDERED_BUFFER_HANDLE(l.j, l.idx_buf_arbiter)
         k == SkipRequested(l.j, l.idx_buf_arbiter + 1, n)
         c == SkipRequested(l.j, l.nb_non_arbitered_buff, l.idx_buf_arbiter)
     IN /\ header_lock' = [header_lock EXCEPT ![h] = 0]
        /\ IF refcnt[h] = 0 \/ (current_mode[h] = "R" /\
                 ORDERED_BUFFER_MODE(l.j, l.idx_buf_arbiter) = "R")
           THEN /\ refcnt' = [refcnt EXCEPT ![h] = @ + 1]
                /\ busy_count' = [busy_count EXCEPT ![h] = @ + 1]
                /\ current_mode' = [current_mode EXCEPT ![h] =
                                      ORDERED_BUFFER_MODE(l.j, l.idx_buf_arbiter)]
                /\ holder' = [holder EXCEPT ![h] = @ \cup {l.j}]
                /\ loc' = [loc EXCEPT ![th] =
                     [l EXCEPT !.idx_buf_arbiter = k,
                               !.pc = IF InBody(l.j, l.arbiter, k, n)
                                      THEN "ta_loop" ELSE "ta_unlock"]]
           ELSE /\ UNCHANGED <<refcnt, busy_count, current_mode, holder>>
                /\ loc' = [loc EXCEPT ![th] =
                     IF InBody(l.j, l.arbiter, c, l.idx_buf_arbiter)
                     THEN [l EXCEPT !.all_arbiter_available = 0,
                                    !.idx_buf_cancel = c, !.pc = "ta_cancel"]
                     ELSE [l EXCEPT !.all_arbiter_available = 0,
                                    !.idx_buf_cancel = l.nb_non_arbitered_buff,
                                    !.pc = "ta_record"]]
  /\ UNCHANGED <<arbiter, arbitered_req_list, mutex, tvars, torel, fifo, abort,
                 parked>>
  /\ UNCHANGED xvars

\* The locked part of the try loop: take the handle if refcnt == 0, else stop.
TaTake(th) ==
  /\ At(th, "ta_take")
  /\ LET l == loc[th]
         n == STARPU_TASK_GET_NBUFFERS(l.j)
         h == ORDERED_BUFFER_HANDLE(l.j, l.idx_buf_arbiter)
         k == SkipRequested(l.j, l.idx_buf_arbiter + 1, n)
         c == SkipRequested(l.j, l.nb_non_arbitered_buff, l.idx_buf_arbiter)
     IN /\ header_lock' = [header_lock EXCEPT ![h] = 0]
        /\ IF refcnt[h] = 0
           THEN /\ refcnt' = [refcnt EXCEPT ![h] = @ + 1]
                /\ busy_count' = [busy_count EXCEPT ![h] = @ + 1]
                /\ current_mode' = [current_mode EXCEPT ![h] =
                                      ORDERED_BUFFER_MODE(l.j, l.idx_buf_arbiter)]
                /\ holder' = [holder EXCEPT ![h] = @ \cup {l.j}]
                /\ loc' = [loc EXCEPT ![th] =
                     [l EXCEPT !.idx_buf_arbiter = k,
                               !.pc = IF InBody(l.j, l.arbiter, k, n)
                                      THEN "ta_loop" ELSE "ta_unlock"]]
           ELSE /\ UNCHANGED <<refcnt, busy_count, current_mode, holder>>
                /\ loc' = [loc EXCEPT ![th] =
                     IF InBody(l.j, l.arbiter, c, l.idx_buf_arbiter)
                     THEN [l EXCEPT !.all_arbiter_available = 0,
                                    !.idx_buf_cancel = c, !.pc = "ta_cancel"]
                     ELSE [l EXCEPT !.all_arbiter_available = 0,
                                    !.idx_buf_cancel = l.nb_non_arbitered_buff,
                                    !.pc = "ta_record"]]
  /\ UNCHANGED <<arbiter, arbitered_req_list, mutex, tvars, torel, fifo, abort,
                 parked>>
  /\ UNCHANGED xvars

\* _starpu_spin_lock(&cancel_handle->header_lock) of the cancel loop.
TaCancel(th) ==
  /\ At(th, "ta_cancel")
  /\ LET h == ORDERED_BUFFER_HANDLE(loc[th].j, loc[th].idx_buf_cancel)
     IN /\ header_lock[h] = 0
        /\ header_lock' = [header_lock EXCEPT ![h] = th]
  /\ Goto(th, "ta_cancel_cs")
  /\ UNCHANGED <<arbiter, refcnt, busy_count, current_mode, arbitered_req_list,
                 mutex, tvars, torel, gvars, abort>>
  /\ UNCHANGED xvars

\* Variant: the rollback leaves refcnt as it is.
TaCancelCs_NoDecrement(th) ==
  /\ At(th, "ta_cancel_cs")
  /\ LET l == loc[th]
         h == ORDERED_BUFFER_HANDLE(l.j, l.idx_buf_cancel)
         c == SkipRequested(l.j, l.idx_buf_cancel + 1, l.idx_buf_arbiter)
     IN IF refcnt[h] # 1
        THEN /\ abort' = "cancel_handle->refcnt == 1"
             /\ UNCHANGED <<refcnt, holder, header_lock, loc>>
        ELSE /\ UNCHANGED <<refcnt, holder>>
             /\ header_lock' = [header_lock EXCEPT ![h] = 0]
             /\ loc' = [loc EXCEPT ![th] =
                  IF InBody(l.j, l.arbiter, c, l.idx_buf_arbiter)
                  THEN [l EXCEPT !.idx_buf_cancel = c, !.pc = "ta_cancel"]
                  ELSE [l EXCEPT !.idx_buf_cancel = l.nb_non_arbitered_buff,
                                 !.pc = "ta_record"]]
             /\ UNCHANGED abort
  /\ UNCHANGED <<arbiter, busy_count, current_mode, arbitered_req_list, mutex,
                 tvars, torel, fifo,
                 parked>>
  /\ UNCHANGED xvars

\* "reset the counter because finally we do not take the data"
TaCancelCs(th) ==
  /\ At(th, "ta_cancel_cs")
  /\ LET l == loc[th]
         h == ORDERED_BUFFER_HANDLE(l.j, l.idx_buf_cancel)
         c == SkipRequested(l.j, l.idx_buf_cancel + 1, l.idx_buf_arbiter)
     IN IF refcnt[h] # 1
        THEN /\ abort' = "cancel_handle->refcnt == 1"
             /\ UNCHANGED <<refcnt, holder, header_lock, loc>>
        ELSE /\ refcnt' = [refcnt EXCEPT ![h] = @ - 1]
             /\ holder' = [holder EXCEPT ![h] = @ \ {l.j}]
             /\ header_lock' = [header_lock EXCEPT ![h] = 0]
             /\ loc' = [loc EXCEPT ![th] =
                  IF InBody(l.j, l.arbiter, c, l.idx_buf_arbiter)
                  THEN [l EXCEPT !.idx_buf_cancel = c, !.pc = "ta_cancel"]
                  ELSE [l EXCEPT !.idx_buf_cancel = l.nb_non_arbitered_buff,
                                 !.pc = "ta_record"]]
             /\ UNCHANGED abort
  /\ UNCHANGED <<arbiter, busy_count, current_mode, arbitered_req_list, mutex,
                 tvars, torel, fifo,
                 parked>>
  /\ UNCHANGED xvars

\* _starpu_spin_lock(&cancel_handle->header_lock) of the record loop.
TaRecord(th) ==
  /\ At(th, "ta_record")
  /\ LET h == ORDERED_BUFFER_HANDLE(loc[th].j, loc[th].idx_buf_cancel)
     IN /\ header_lock[h] = 0
        /\ header_lock' = [header_lock EXCEPT ![h] = th]
  /\ Goto(th, "ta_record_cs")
  /\ UNCHANGED <<arbiter, refcnt, busy_count, current_mode, arbitered_req_list,
                 mutex, tvars, torel, gvars, abort>>
  /\ UNCHANGED xvars

\* Variant: the header_lock is not released after the requester is stored.
TaRecordCs_KeepLock(th) ==
  /\ At(th, "ta_record_cs")
  /\ LET l == loc[th]
         n == STARPU_TASK_GET_NBUFFERS(l.j)
         h == ORDERED_BUFFER_HANDLE(l.j, l.idx_buf_cancel)
         r == Requester(l.j, l.idx_buf_cancel,
                        ORDERED_BUFFER_MODE(l.j, l.idx_buf_cancel))
     IN /\ arbitered_req_list' =
             [arbitered_req_list EXCEPT ![h] = <<r>> \o @]
        /\ fifo' = [fifo EXCEPT ![h] = Append(@, l.j)]
        /\ busy_count' = [busy_count EXCEPT ![h] =
             IF l.idx_buf_arbiter <= l.idx_buf_cancel THEN @ + 1 ELSE @]
        /\ UNCHANGED header_lock
        /\ loc' = [loc EXCEPT ![th] =
             [l EXCEPT !.idx_buf_cancel = l.idx_buf_cancel + 1,
                       !.pc = IF InBody(l.j, l.arbiter, l.idx_buf_cancel + 1, n)
                              THEN "ta_record" ELSE "ta_fail_unlock"]]
  /\ UNCHANGED <<arbiter, refcnt, current_mode, mutex, tvars, torel, holder,
                 abort,
                 parked>>
  /\ UNCHANGED xvars

\* "store node in list", "inc the busy count if it has not been changed in
\* the previous loop"
TaRecordCs(th) ==
  /\ At(th, "ta_record_cs")
  /\ LET l == loc[th]
         n == STARPU_TASK_GET_NBUFFERS(l.j)
         h == ORDERED_BUFFER_HANDLE(l.j, l.idx_buf_cancel)
         r == Requester(l.j, l.idx_buf_cancel,
                        ORDERED_BUFFER_MODE(l.j, l.idx_buf_cancel))
     IN /\ arbitered_req_list' =
             [arbitered_req_list EXCEPT ![h] = <<r>> \o @]
        /\ fifo' = [fifo EXCEPT ![h] = Append(@, l.j)]
        /\ busy_count' = [busy_count EXCEPT ![h] =
             IF l.idx_buf_arbiter <= l.idx_buf_cancel THEN @ + 1 ELSE @]
        /\ header_lock' = [header_lock EXCEPT ![h] = 0]
        /\ loc' = [loc EXCEPT ![th] =
             [l EXCEPT !.idx_buf_cancel = l.idx_buf_cancel + 1,
                       !.pc = IF InBody(l.j, l.arbiter, l.idx_buf_cancel + 1, n)
                              THEN "ta_record" ELSE "ta_fail_unlock"]]
  /\ UNCHANGED <<arbiter, refcnt, current_mode, mutex, tvars, torel, holder,
                 abort,
                 parked>>
  /\ UNCHANGED xvars

\* The task is parked: STARPU_PTHREAD_MUTEX_UNLOCK(&arbiter->mutex); return 1.
TaFailUnlock(th) ==
  /\ At(th, "ta_fail_unlock")
  /\ mutex' = [mutex EXCEPT ![loc[th].arbiter] = 0]
  /\ loc' = [loc EXCEPT ![th] = Returned(th)]
  /\ parked' = [parked EXCEPT ![loc[th].j] = TRUE]
  /\ done' = [done EXCEPT ![th] = IF Finishes(th) THEN Min(@ + 1, MaxPush) ELSE @]
  /\ UNCHANGED <<arbiter, refcnt, busy_count, current_mode, arbitered_req_list,
                 header_lock, shape, submitted, ready, pushed, torel, holder,
                 fifo, abort>>
  /\ UNCHANGED xvars

\* Variant: the arbiter mutex is not released before the push.
TaUnlock_KeepMutex(th) ==
  /\ At(th, "ta_unlock")
  /\ mutex' = IF loc[th].idx_buf_arbiter < STARPU_TASK_GET_NBUFFERS(loc[th].j)
              THEN [mutex EXCEPT ![loc[th].arbiter] = 0] ELSE mutex
  /\ LET l == loc[th]
     IN loc' = [loc EXCEPT ![th] =
          IF l.idx_buf_arbiter < STARPU_TASK_GET_NBUFFERS(l.j)
          THEN [l EXCEPT !.pc = "ta_mutex",
                         !.nb_non_arbitered_buff = l.idx_buf_arbiter,
                         !.arbiter =
                            arbiter[ORDERED_BUFFER_HANDLE(l.j, l.idx_buf_arbiter)]]
          ELSE [l EXCEPT !.pc = "ta_push"]]
  /\ UNCHANGED <<arbiter, refcnt, busy_count, current_mode, arbitered_req_list,
                 header_lock, tvars, torel, gvars, abort>>
  /\ UNCHANGED xvars

\* Variant: the job is pushed after its first arbiter group.
TaUnlock_PushEarly(th) ==
  /\ At(th, "ta_unlock")
  /\ mutex' = [mutex EXCEPT ![loc[th].arbiter] = 0]
  /\ LET l == loc[th]
     IN loc' = [loc EXCEPT ![th] =
          IF FALSE
          THEN [l EXCEPT !.pc = "ta_mutex",
                         !.nb_non_arbitered_buff = l.idx_buf_arbiter,
                         !.arbiter =
                            arbiter[ORDERED_BUFFER_HANDLE(l.j, l.idx_buf_arbiter)]]
          ELSE [l EXCEPT !.pc = "ta_push"]]
  /\ UNCHANGED <<arbiter, refcnt, busy_count, current_mode, arbitered_req_list,
                 header_lock, tvars, torel, gvars, abort>>
  /\ UNCHANGED xvars

\* All the handles of the arbiter are taken: unlock the mutex, then go on
\* with the handles of the next arbiter, or push.
TaUnlock(th) ==
  /\ At(th, "ta_unlock")
  /\ mutex' = [mutex EXCEPT ![loc[th].arbiter] = 0]
  /\ LET l == loc[th]
     IN loc' = [loc EXCEPT ![th] =
          IF l.idx_buf_arbiter < STARPU_TASK_GET_NBUFFERS(l.j)
          THEN [l EXCEPT !.pc = "ta_mutex",
                         !.nb_non_arbitered_buff = l.idx_buf_arbiter,
                         !.arbiter =
                            arbiter[ORDERED_BUFFER_HANDLE(l.j, l.idx_buf_arbiter)]]
          ELSE [l EXCEPT !.pc = "ta_push"]]
  /\ UNCHANGED <<arbiter, refcnt, busy_count, current_mode, arbitered_req_list,
                 header_lock, tvars, torel, gvars, abort>>
  /\ UNCHANGED xvars

\* _starpu_push_task(j); return 0.
TaPush(th) ==
  /\ At(th, "ta_push")
  /\ ready' = [ready EXCEPT ![loc[th].j] = Min(@ + 1, MaxPush)]
  /\ pushed' = [pushed EXCEPT ![loc[th].j] = Min(@ + 1, MaxPush)]
  /\ loc' = [loc EXCEPT ![th] = Returned(th)]
  /\ done' = [done EXCEPT ![th] = IF Finishes(th) THEN Min(@ + 1, MaxPush) ELSE @]
  /\ UNCHANGED <<hvars, shape, submitted, torel, gvars, abort>>
  /\ UNCHANGED xvars


\* -------------------------------------- _starpu_notify_arbitered_dependencies
\* Reading a requester that was freed while still linked in the list
\* (_starpu_data_requester_delete(r) after another node of the same job was
\* erased) is undefined: the node reads as it was, or the access faults.
ReadOutcomes(h, rp) ==
  IF rp <= Len(arbitered_req_list[h]) /\ arbitered_req_list[h][rp].freed
  THEN {"intact", "fault"}
  ELSE {"intact"}

\* Variant: the scan starts at the second requester of the list.
NtBegin_SkipFirst(l, rp) ==
  IF rp + 1 > Len(arbitered_req_list[l.handle])
  THEN [l EXCEPT !.r = 0, !.pc = "nt_unlock"]
  ELSE LET j == arbitered_req_list[l.handle][rp + 1].j
           n == STARPU_TASK_GET_NBUFFERS(j)
           nb == FindArbiterBuffers(j, l.arbiter, 0)
           k == SkipRequested(j, nb, n)
       IN [l EXCEPT !.r = rp + 1, !.j = j, !.nb_non_arbitered_buff = nb,
                    !.idx_buf_arbiter = k, !.idx_buf_cancel = 0,
                    !.all_arbiter_available = 1,
                    !.pc = IF InBody(j, l.arbiter, k, n)
                           THEN "nt_loop" ELSE "nt_promoted"]

\* The scan reaches the requester at position rp of the released handle's
\* list: the end of the list, or "find the position of arbiter buffers" and
\* the entry of the loop that takes the handles.
NtBegin(l, rp) ==
  IF rp > Len(arbitered_req_list[l.handle])
  THEN [l EXCEPT !.r = 0, !.pc = "nt_unlock"]
  ELSE LET j == arbitered_req_list[l.handle][rp].j
           n == STARPU_TASK_GET_NBUFFERS(j)
           nb == FindArbiterBuffers(j, l.arbiter, 0)
           k == SkipRequested(j, nb, n)
       IN [l EXCEPT !.r = rp, !.j = j, !.nb_non_arbitered_buff = nb,
                    !.idx_buf_arbiter = k, !.idx_buf_cancel = 0,
                    !.all_arbiter_available = 1,
                    !.pc = IF InBody(j, l.arbiter, k, n)
                           THEN "nt_loop" ELSE "nt_promoted"]

\* Variant: the test of the list is inverted: a list that is not NULL is not scanned.
NtMutex_NoScan(th) ==
  /\ At(th, "nt_mutex")
  /\ mutex[loc[th].arbiter] = 0
  /\ mutex' = [mutex EXCEPT ![loc[th].arbiter] = th]
  /\ \E o \in ReadOutcomes(loc[th].handle, 1) :
       /\ loc' = [loc EXCEPT ![th] =
                  NtBegin(loc[th], Len(arbitered_req_list[loc[th].handle]) + 1)]
       /\ abort' = IF o = "fault" THEN "use after free" ELSE abort
  /\ UNCHANGED <<arbiter, refcnt, busy_count, current_mode, arbitered_req_list,
                 header_lock, tvars, torel, gvars>>
  /\ UNCHANGED xvars

\* STARPU_PTHREAD_MUTEX_LOCK(&arbiter->mutex), the test of the list, and the
\* first requester.
NtMutex(th) ==
  /\ At(th, "nt_mutex")
  /\ mutex[loc[th].arbiter] = 0
  /\ mutex' = [mutex EXCEPT ![loc[th].arbiter] = th]
  /\ \E o \in ReadOutcomes(loc[th].handle, 1) :
       /\ loc' = [loc EXCEPT ![th] = NtBegin(loc[th], 1)]
       /\ abort' = IF o = "fault" THEN "use after free" ELSE abort
  /\ UNCHANGED <<arbiter, refcnt, busy_count, current_mode, arbitered_req_list,
                 header_lock, tvars, torel, gvars>>
  /\ UNCHANGED xvars

\* _starpu_spin_lock(&handle_arbiter->header_lock) of the loop that takes.
NtLoop(th) ==
  /\ At(th, "nt_loop")
  /\ LET h == ORDERED_BUFFER_HANDLE(loc[th].j, loc[th].idx_buf_arbiter)
     IN /\ header_lock[h] = 0
        /\ header_lock' = [header_lock EXCEPT ![h] = th]
  /\ Goto(th, "nt_take")
  /\ UNCHANGED <<arbiter, refcnt, busy_count, current_mode, arbitered_req_list,
                 mutex, tvars, torel, gvars, abort>>
  /\ UNCHANGED xvars

\* Variant: the notify takes the handle and leaves current_mode as it was.
NtTake_KeepMode(th) ==
  /\ At(th, "nt_take")
  /\ LET l == loc[th]
         n == STARPU_TASK_GET_NBUFFERS(l.j)
         h == ORDERED_BUFFER_HANDLE(l.j, l.idx_buf_arbiter)
         k == SkipRequested(l.j, l.idx_buf_arbiter + 1, n)
         p == SkipRequested(l.j, l.nb_non_arbitered_buff, n)
         c == SkipRequested(l.j, l.nb_non_arbitered_buff, l.idx_buf_arbiter)
     IN /\ header_lock' = [header_lock EXCEPT ![h] = 0]
        /\ IF refcnt[h] # 0
           THEN /\ UNCHANGED <<refcnt, current_mode, holder>>
                /\ IF InBody(l.j, l.arbiter, c, l.idx_buf_arbiter)
                   THEN /\ loc' = [loc EXCEPT ![th] =
                             [l EXCEPT !.all_arbiter_available = 0,
                                       !.idx_buf_cancel = c, !.pc = "nt_cancel"]]
                        /\ UNCHANGED abort
                   ELSE \E o \in ReadOutcomes(l.handle, l.r + 1) :
                          /\ loc' = [loc EXCEPT ![th] = NtBegin(l, l.r + 1)]
                          /\ abort' = IF o = "fault" THEN "use after free"
                                      ELSE abort
           ELSE /\ refcnt' = [refcnt EXCEPT ![h] = @ + 1]
                /\ UNCHANGED current_mode
                /\ holder' = [holder EXCEPT ![h] = @ \cup {l.j}]
                /\ loc' = [loc EXCEPT ![th] =
                     IF InBody(l.j, l.arbiter, k, n)
                     THEN [l EXCEPT !.idx_buf_arbiter = k, !.pc = "nt_loop"]
                     ELSE [l EXCEPT !.idx_buf_arbiter = p,
                                    !.pc = IF InBody(l.j, l.arbiter, p, n)
                                           THEN "nt_promote" ELSE "nt_promoted"]]
                /\ UNCHANGED abort
  /\ UNCHANGED <<arbiter, busy_count, arbitered_req_list, mutex, tvars, torel,
                 fifo,
                 parked>>
  /\ UNCHANGED xvars

\* Variant: the notify takes the handle without looking at refcnt.
NtTake_Unchecked(th) ==
  /\ At(th, "nt_take")
  /\ LET l == loc[th]
         n == STARPU_TASK_GET_NBUFFERS(l.j)
         h == ORDERED_BUFFER_HANDLE(l.j, l.idx_buf_arbiter)
         k == SkipRequested(l.j, l.idx_buf_arbiter + 1, n)
         p == SkipRequested(l.j, l.nb_non_arbitered_buff, n)
         c == SkipRequested(l.j, l.nb_non_arbitered_buff, l.idx_buf_arbiter)
     IN /\ header_lock' = [header_lock EXCEPT ![h] = 0]
        /\ IF FALSE
           THEN /\ UNCHANGED <<refcnt, current_mode, holder>>
                /\ IF InBody(l.j, l.arbiter, c, l.idx_buf_arbiter)
                   THEN /\ loc' = [loc EXCEPT ![th] =
                             [l EXCEPT !.all_arbiter_available = 0,
                                       !.idx_buf_cancel = c, !.pc = "nt_cancel"]]
                        /\ UNCHANGED abort
                   ELSE \E o \in ReadOutcomes(l.handle, l.r + 1) :
                          /\ loc' = [loc EXCEPT ![th] = NtBegin(l, l.r + 1)]
                          /\ abort' = IF o = "fault" THEN "use after free"
                                      ELSE abort
           ELSE /\ refcnt' = [refcnt EXCEPT ![h] = @ + 1]
                /\ current_mode' = [current_mode EXCEPT ![h] =
                                      ORDERED_BUFFER_MODE(l.j, l.idx_buf_arbiter)]
                /\ holder' = [holder EXCEPT ![h] = @ \cup {l.j}]
                /\ loc' = [loc EXCEPT ![th] =
                     IF InBody(l.j, l.arbiter, k, n)
                     THEN [l EXCEPT !.idx_buf_arbiter = k, !.pc = "nt_loop"]
                     ELSE [l EXCEPT !.idx_buf_arbiter = p,
                                    !.pc = IF InBody(l.j, l.arbiter, p, n)
                                           THEN "nt_promote" ELSE "nt_promoted"]]
                /\ UNCHANGED abort
  /\ UNCHANGED <<arbiter, busy_count, arbitered_req_list, mutex, tvars, torel,
                 fifo,
                 parked>>
  /\ UNCHANGED xvars

\* "handle is not available, record ourself" or "mark the handle as taken"
NtTake(th) ==
  /\ At(th, "nt_take")
  /\ LET l == loc[th]
         n == STARPU_TASK_GET_NBUFFERS(l.j)
         h == ORDERED_BUFFER_HANDLE(l.j, l.idx_buf_arbiter)
         k == SkipRequested(l.j, l.idx_buf_arbiter + 1, n)
         p == SkipRequested(l.j, l.nb_non_arbitered_buff, n)
         c == SkipRequested(l.j, l.nb_non_arbitered_buff, l.idx_buf_arbiter)
     IN /\ header_lock' = [header_lock EXCEPT ![h] = 0]
        /\ IF refcnt[h] # 0
           THEN /\ UNCHANGED <<refcnt, current_mode, holder>>
                /\ IF InBody(l.j, l.arbiter, c, l.idx_buf_arbiter)
                   THEN /\ loc' = [loc EXCEPT ![th] =
                             [l EXCEPT !.all_arbiter_available = 0,
                                       !.idx_buf_cancel = c, !.pc = "nt_cancel"]]
                        /\ UNCHANGED abort
                   ELSE \E o \in ReadOutcomes(l.handle, l.r + 1) :
                          /\ loc' = [loc EXCEPT ![th] = NtBegin(l, l.r + 1)]
                          /\ abort' = IF o = "fault" THEN "use after free"
                                      ELSE abort
           ELSE /\ refcnt' = [refcnt EXCEPT ![h] = @ + 1]
                /\ current_mode' = [current_mode EXCEPT ![h] =
                                      ORDERED_BUFFER_MODE(l.j, l.idx_buf_arbiter)]
                /\ holder' = [holder EXCEPT ![h] = @ \cup {l.j}]
                /\ loc' = [loc EXCEPT ![th] =
                     IF InBody(l.j, l.arbiter, k, n)
                     THEN [l EXCEPT !.idx_buf_arbiter = k, !.pc = "nt_loop"]
                     ELSE [l EXCEPT !.idx_buf_arbiter = p,
                                    !.pc = IF InBody(l.j, l.arbiter, p, n)
                                           THEN "nt_promote" ELSE "nt_promoted"]]
                /\ UNCHANGED abort
  /\ UNCHANGED <<arbiter, busy_count, arbitered_req_list, mutex, tvars, torel,
                 fifo,
                 parked>>
  /\ UNCHANGED xvars

\* _starpu_spin_lock(&handle_arbiter->header_lock) of the loop that removes
\* the requesters of the promoted job.
NtPromote(th) ==
  /\ At(th, "nt_promote")
  /\ LET h == ORDERED_BUFFER_HANDLE(loc[th].j, loc[th].idx_buf_arbiter)
     IN /\ header_lock[h] = 0
        /\ header_lock' = [header_lock EXCEPT ![h] = th]
  /\ Goto(th, "nt_promote_cs")
  /\ UNCHANGED <<arbiter, refcnt, busy_count, current_mode, arbitered_req_list,
                 mutex, tvars, torel, gvars, abort>>
  /\ UNCHANGED xvars

\* remove_job_from_requester_list: erase the first node whose job is j.
remove_job_from_requester_list(req_list, j) ==
  RemoveAt(req_list, FirstOf(req_list, j, 1))

\* The assertions, remove_job_from_requester_list, and the unlock.
NtPromoteCs(th) ==
  /\ At(th, "nt_promote_cs")
  /\ LET l == loc[th]
         n == STARPU_TASK_GET_NBUFFERS(l.j)
         h == ORDERED_BUFFER_HANDLE(l.j, l.idx_buf_arbiter)
         k == SkipRequested(l.j, l.idx_buf_arbiter + 1, n)
         p == FirstOf(arbitered_req_list[h], l.j, 1)
         f == FirstJob(fifo[h], l.j, 1)
         failed ==
           IF refcnt[h] # 1 THEN "handle_arbiter->refcnt == 1"
           ELSE IF busy_count[h] < 1 THEN "handle_arbiter->busy_count >= 1"
           ELSE IF current_mode[h] # ORDERED_BUFFER_MODE(l.j, l.idx_buf_arbiter)
                THEN "handle_arbiter->current_mode == mode"
           ELSE IF arbitered_req_list[h] = <<>> THEN "arbitered_req_list == NULL"
           ELSE IF p = 0 THEN "correctly_deleted == 0"
           ELSE ""
     IN IF failed # ""
        THEN /\ abort' = failed
             /\ UNCHANGED <<arbitered_req_list, fifo, header_lock, loc>>
        ELSE /\ arbitered_req_list' = [arbitered_req_list EXCEPT ![h] =
                  remove_job_from_requester_list(@, l.j)]
             /\ fifo' = [fifo EXCEPT ![h] = IF f = 0 THEN @ ELSE RemoveAt(@, f)]
             /\ header_lock' = [header_lock EXCEPT ![h] = 0]
             /\ loc' = [loc EXCEPT ![th] =
                  [l EXCEPT !.idx_buf_arbiter = k,
                            !.r = IF h # l.handle THEN l.r
                                  ELSE IF p = l.r THEN 0 ELSE l.r - 1,
                            !.pc = IF InBody(l.j, l.arbiter, k, n)
                                   THEN "nt_promote" ELSE "nt_promoted"]]
             /\ UNCHANGED abort
  /\ UNCHANGED <<arbiter, refcnt, busy_count, current_mode, mutex, tvars, torel,
                 holder,
                 parked>>
  /\ UNCHANGED xvars

\* _starpu_data_requester_delete(r), "release global mutex", then the handles
\* of the next arbiter (try-acquire) or the push.
NtPromoted(th) ==
  /\ At(th, "nt_promoted")
  /\ mutex' = [mutex EXCEPT ![loc[th].arbiter] = 0]
  /\ LET l == loc[th]
     IN /\ arbitered_req_list' =
             IF l.r = 0 \/ l.r > Len(arbitered_req_list[l.handle])
             THEN arbitered_req_list
             ELSE [arbitered_req_list EXCEPT ![l.handle][l.r].freed = TRUE]
        /\ loc' = [loc EXCEPT ![th] =
             IF l.idx_buf_arbiter < STARPU_TASK_GET_NBUFFERS(l.j)
             THEN [l EXCEPT !.pc = "ta_mutex", !.r = 0,
                            !.promoted = Min(l.promoted + 1, MaxPush),
                            !.nb_non_arbitered_buff = l.idx_buf_arbiter,
                            !.arbiter =
                              arbiter[ORDERED_BUFFER_HANDLE(l.j, l.idx_buf_arbiter)]]
             ELSE [l EXCEPT !.pc = "nt_push", !.r = 0,
                            !.promoted = Min(l.promoted + 1, MaxPush)]]
  /\ UNCHANGED <<arbiter, refcnt, busy_count, current_mode, header_lock, tvars,
                 torel, gvars, abort>>
  /\ UNCHANGED xvars

\* Variant: after the push, notify goes back to the scan of the list.
NtPush_Continue(th) ==
  /\ At(th, "nt_push")
  /\ ready' = [ready EXCEPT ![loc[th].j] = Min(@ + 1, MaxPush)]
  /\ pushed' = [pushed EXCEPT ![loc[th].j] = Min(@ + 1, MaxPush)]
  /\ loc' = [loc EXCEPT ![th].pc = "nt_mutex"]
  /\ UNCHANGED done
  /\ UNCHANGED <<hvars, shape, submitted, torel, gvars, abort>>
  /\ UNCHANGED xvars

\* "Finished with all data, can eventually push!"; return 0.
NtPush(th) ==
  /\ At(th, "nt_push")
  /\ ready' = [ready EXCEPT ![loc[th].j] = Min(@ + 1, MaxPush)]
  /\ pushed' = [pushed EXCEPT ![loc[th].j] = Min(@ + 1, MaxPush)]
  /\ loc' = [loc EXCEPT ![th] = Returned(th)]
  /\ done' = [done EXCEPT ![th] = IF Finishes(th) THEN Min(@ + 1, MaxPush) ELSE @]
  /\ UNCHANGED <<hvars, shape, submitted, torel, gvars, abort>>
  /\ UNCHANGED xvars

\* _starpu_spin_lock(&cancel_handle->header_lock) of "revert the mark".
NtCancel(th) ==
  /\ At(th, "nt_cancel")
  /\ LET h == ORDERED_BUFFER_HANDLE(loc[th].j, loc[th].idx_buf_cancel)
     IN /\ header_lock[h] = 0
        /\ header_lock' = [header_lock EXCEPT ![h] = th]
  /\ Goto(th, "nt_cancel_cs")
  /\ UNCHANGED <<arbiter, refcnt, busy_count, current_mode, arbitered_req_list,
                 mutex, tvars, torel, gvars, abort>>
  /\ UNCHANGED xvars

\* Variant: after the rollback the scan of the requester list stops.
NtCancelCs_StopScan(th) ==
  /\ At(th, "nt_cancel_cs")
  /\ LET l == loc[th]
         h == ORDERED_BUFFER_HANDLE(l.j, l.idx_buf_cancel)
         c == SkipRequested(l.j, l.idx_buf_cancel + 1, l.idx_buf_arbiter)
     IN IF refcnt[h] # 1
        THEN /\ abort' = "cancel_handle->refcnt == 1"
             /\ UNCHANGED <<refcnt, holder, header_lock, loc>>
        ELSE /\ refcnt' = [refcnt EXCEPT ![h] = @ - 1]
             /\ holder' = [holder EXCEPT ![h] = @ \ {l.j}]
             /\ header_lock' = [header_lock EXCEPT ![h] = 0]
             /\ IF InBody(l.j, l.arbiter, c, l.idx_buf_arbiter)
                THEN /\ loc' = [loc EXCEPT ![th] =
                          [l EXCEPT !.idx_buf_cancel = c, !.pc = "nt_cancel"]]
                     /\ UNCHANGED abort
                ELSE \E o \in ReadOutcomes(l.handle, l.r + 1) :
                       /\ loc' = [loc EXCEPT ![th] = [l EXCEPT !.r = 0, !.pc = "nt_unlock"]]
                       /\ abort' = IF o = "fault" THEN "use after free"
                                   ELSE abort
  /\ UNCHANGED <<arbiter, busy_count, current_mode, arbitered_req_list, mutex,
                 tvars, torel, fifo,
                 parked>>
  /\ UNCHANGED xvars

\* Variant: the rollback of the notify leaves refcnt as it is.
NtCancelCs_KeepRef(th) ==
  /\ At(th, "nt_cancel_cs")
  /\ LET l == loc[th]
         h == ORDERED_BUFFER_HANDLE(l.j, l.idx_buf_cancel)
         c == SkipRequested(l.j, l.idx_buf_cancel + 1, l.idx_buf_arbiter)
     IN IF refcnt[h] # 1
        THEN /\ abort' = "cancel_handle->refcnt == 1"
             /\ UNCHANGED <<refcnt, holder, header_lock, loc>>
        ELSE /\ UNCHANGED <<refcnt, holder>>
             /\ header_lock' = [header_lock EXCEPT ![h] = 0]
             /\ IF InBody(l.j, l.arbiter, c, l.idx_buf_arbiter)
                THEN /\ loc' = [loc EXCEPT ![th] =
                          [l EXCEPT !.idx_buf_cancel = c, !.pc = "nt_cancel"]]
                     /\ UNCHANGED abort
                ELSE \E o \in ReadOutcomes(l.handle, l.r + 1) :
                       /\ loc' = [loc EXCEPT ![th] = NtBegin(l, l.r + 1)]
                       /\ abort' = IF o = "fault" THEN "use after free"
                                   ELSE abort
  /\ UNCHANGED <<arbiter, busy_count, current_mode, arbitered_req_list, mutex,
                 tvars, torel, fifo,
                 parked>>
  /\ UNCHANGED xvars

\* "all handles are not available - revert the mark", then r = r->_next.
NtCancelCs(th) ==
  /\ At(th, "nt_cancel_cs")
  /\ LET l == loc[th]
         h == ORDERED_BUFFER_HANDLE(l.j, l.idx_buf_cancel)
         c == SkipRequested(l.j, l.idx_buf_cancel + 1, l.idx_buf_arbiter)
     IN IF refcnt[h] # 1
        THEN /\ abort' = "cancel_handle->refcnt == 1"
             /\ UNCHANGED <<refcnt, holder, header_lock, loc>>
        ELSE /\ refcnt' = [refcnt EXCEPT ![h] = @ - 1]
             /\ holder' = [holder EXCEPT ![h] = @ \ {l.j}]
             /\ header_lock' = [header_lock EXCEPT ![h] = 0]
             /\ IF InBody(l.j, l.arbiter, c, l.idx_buf_arbiter)
                THEN /\ loc' = [loc EXCEPT ![th] =
                          [l EXCEPT !.idx_buf_cancel = c, !.pc = "nt_cancel"]]
                     /\ UNCHANGED abort
                ELSE \E o \in ReadOutcomes(l.handle, l.r + 1) :
                       /\ loc' = [loc EXCEPT ![th] = NtBegin(l, l.r + 1)]
                       /\ abort' = IF o = "fault" THEN "use after free"
                                   ELSE abort
  /\ UNCHANGED <<arbiter, busy_count, current_mode, arbitered_req_list, mutex,
                 tvars, torel, fifo,
                 parked>>
  /\ UNCHANGED xvars

\* "no task has been pushed" (or the list is NULL): unlock the mutex, return 1.
NtUnlock(th) ==
  /\ At(th, "nt_unlock")
  /\ mutex' = [mutex EXCEPT ![loc[th].arbiter] = 0]
  /\ loc' = [loc EXCEPT ![th] = Returned(th)]
  /\ done' = [done EXCEPT ![th] = IF Finishes(th) THEN Min(@ + 1, MaxPush) ELSE @]
  /\ UNCHANGED <<arbiter, refcnt, busy_count, current_mode, arbitered_req_list,
                 header_lock, shape, submitted, ready, pushed, torel, gvars,
                 abort>>
  /\ UNCHANGED xvars

\* ------------------------------------------------ termination of a task
\* A worker takes the pushed task, executes it, and starts releasing its data.
StartTermination(th) ==
  /\ At(th, "idle") /\ ready[th] > 0
  /\ ready' = [ready EXCEPT ![th] = @ - 1]
  /\ torel' = [torel EXCEPT ![th] = HandlesOf(th)]
  /\ loc' = [loc EXCEPT ![th] = [Idle EXCEPT !.pc = "rel", !.ctx = "notify"]]
  /\ UNCHANGED <<hvars, shape, submitted, pushed, done, gvars, abort>>
  /\ UNCHANGED xvars

\* The release of one handle, in any order: lock its header_lock.
ReleaseLock(th, h) ==
  /\ At(th, "rel") /\ h \in torel[th]
  /\ header_lock[h] = 0
  /\ header_lock' = [header_lock EXCEPT ![h] = th]
  /\ loc' = [loc EXCEPT ![th].pc = "rel_cs", ![th].handle = h]
  /\ UNCHANGED <<arbiter, refcnt, busy_count, current_mode, arbitered_req_list,
                 mutex, tvars, torel, gvars, abort>>
  /\ UNCHANGED xvars

\* Decrement refcnt and busy_count, unlock, then call the notify of the arbiter.
ReleaseCs(th) ==
  /\ At(th, "rel_cs")
  /\ LET h == loc[th].handle
     IN IF refcnt[h] = 0 \/ busy_count[h] = 0
        THEN /\ abort' = "release of a handle that is not held"
             /\ UNCHANGED <<refcnt, busy_count, holder, header_lock, torel, loc>>
        ELSE /\ refcnt' = [refcnt EXCEPT ![h] = @ - 1]
             /\ busy_count' = [busy_count EXCEPT ![h] = @ - 1]
             /\ holder' = [holder EXCEPT ![h] = @ \ {th}]
             /\ header_lock' = [header_lock EXCEPT ![h] = 0]
             /\ torel' = [torel EXCEPT ![th] = @ \ {h}]
             /\ loc' = [loc EXCEPT ![th].pc = "nt_mutex",
                                   ![th].arbiter = arbiter[h]]
             /\ UNCHANGED abort
  /\ UNCHANGED <<arbiter, current_mode, arbitered_req_list, mutex, tvars, fifo,
                 parked>>
  /\ UNCHANGED xvars

\* ------------------------------------------------------- specification
Next ==
  \/ \E c \in AssignCalls : starpu_data_assign_arbiter(c[1], c[2])
  \/ \E h \in Handles : starpu_data_acquire(h)
  \/ \E h \in Handles : starpu_data_release(h)
  \/ \E t \in Tasks : Submit(t)
  \/ \E th \in Tasks : TaMutex(th)
  \/ \E th \in Tasks : TaLoop(th)
  \/ \E th \in Tasks : TaTake(th)
  \/ \E th \in Tasks : TaCancel(th)
  \/ \E th \in Tasks : TaCancelCs(th)
  \/ \E th \in Tasks : TaRecord(th)
  \/ \E th \in Tasks : TaRecordCs(th)
  \/ \E th \in Tasks : TaFailUnlock(th)
  \/ \E th \in Tasks : TaUnlock(th)
  \/ \E th \in Tasks : TaPush(th)
  \/ \E th \in Tasks : NtMutex(th)
  \/ \E th \in Tasks : NtLoop(th)
  \/ \E th \in Tasks : NtTake(th)
  \/ \E th \in Tasks : NtPromote(th)
  \/ \E th \in Tasks : NtPromoteCs(th)
  \/ \E th \in Tasks : NtPromoted(th)
  \/ \E th \in Tasks : NtPush(th)
  \/ \E th \in Tasks : NtCancel(th)
  \/ \E th \in Tasks : NtCancelCs(th)
  \/ \E th \in Tasks : NtUnlock(th)
  \/ \E th \in Tasks : StartTermination(th)
  \/ \E th \in Tasks : \E h \in Handles : ReleaseLock(th, h)
  \/ \E th \in Tasks : ReleaseCs(th)

Spec == Init /\ [][Next]_vars

\* The steps of thread th inside try-acquire, notify and the termination of
\* its task.
ThreadStep(th) ==
  \/ TaMutex(th) \/ TaLoop(th) \/ TaTake(th) \/ TaCancel(th) \/ TaCancelCs(th)
  \/ TaRecord(th) \/ TaRecordCs(th) \/ TaFailUnlock(th) \/ TaUnlock(th)
  \/ TaPush(th)
  \/ NtMutex(th) \/ NtLoop(th) \/ NtTake(th) \/ NtPromote(th)
  \/ NtPromoteCs(th) \/ NtPromoted(th) \/ NtPush(th) \/ NtCancel(th)
  \/ NtCancelCs(th) \/ NtUnlock(th)
  \/ StartTermination(th) \/ (\E h \in Handles : ReleaseLock(th, h))
  \/ ReleaseCs(th)

\* Every thread that can run eventually runs: a submission goes to its end,
\* a pushed task is eventually executed, and its termination releases each
\* of its handles and notifies.
LiveSpec == Init /\ [][Next]_vars /\ \A th \in Tasks : WF_vars(ThreadStep(th))

\* The scenarios "two arbitered handles" (T1 on h1 and h2, T2 on h2, T3 on
\* h1) and "arbiter opportunism" (T1 on h1 and h2, T2 on h1, T3 on h2 and h3).
Scenarios == {<<3, 2, 1>>, <<3, 1, 4>>}

ScenarioInit == InitShapes(Scenarios)

ScenarioSpec == ScenarioInit /\ [][Next]_vars

\* The task whose buffer list names handle 1 in two adjacent entries.
TwiceShape == 7

\* The tasks of the runs with a repeated handle: a writer of handle 2, a writer
\* of handles 1 and 2, and the task that names handle 1 twice.
DupShapeSet == {2, 3, TwiceShape}

DupInit ==
  InitShapes({s \in [Tasks -> DupShapeSet] :
                \A t \in Tasks : t > 1 => s[t - 1] <= s[t]})

DupSpec == DupInit /\ [][Next]_vars

\* The application submits the tasks from one thread, in the order of their
\* numbers: a submission starts when the previous one has returned.
SeqSubmit(t) ==
  /\ \A s \in Tasks : s < t => submitted[s] /\ loc[s].ctx # "submit"
  /\ Submit(t)

\* The tasks submitted in order: the first shapes and the reader of handle 1.
SeqShapeSet == (1..SeqShapes) \cup {ReadShape}

SeqInit == InitShapes([Tasks -> SeqShapeSet])

SeqNext ==
  \/ \E c \in AssignCalls : starpu_data_assign_arbiter(c[1], c[2])
  \/ \E h \in Handles : starpu_data_acquire(h)
  \/ \E h \in Handles : starpu_data_release(h)
  \/ \E t \in Tasks : SeqSubmit(t)
  \/ \E th \in Tasks : ThreadStep(th)

SeqSpec == SeqInit /\ [][SeqNext]_vars

\* ------------------------------------------- LOCK_OR_DELEGATE arbiter
\* With LOCK_OR_DELEGATE the try-acquire and the notify are posted to the
\* arbiter instead of being run under its mutex.  The handles all belong to
\* one arbiter; a posted function is run in one piece at LodRun, the
\* releases of the handles interleaving with it as header_lock allows.
LodAt(th, p) == abort = "" /\ lod[th].pc = p

SubmitFunc(j) == [kind |-> "submit", j |-> j, h |-> 0]
NotifyFunc(j, h) == [kind |-> "notify", j |-> j, h |-> h]

\* The buffers a job takes before it meets a busy handle (refcnt != 0).
LodTaken(j) ==
  {i \in 0..(STARPU_TASK_GET_NBUFFERS(j) - 1) :
     \A k \in 0..i : refcnt[ORDERED_BUFFER_HANDLE(j, k)] = 0}

all_arbiter_available(j) ==
  LodTaken(j) = 0..(STARPU_TASK_GET_NBUFFERS(j) - 1)

\* An attempt writes current_mode of each handle it takes, and the rollback
\* of a failed attempt only brings refcnt back.
LodModes(cm, j) ==
  [h \in Handles |->
     IF \E i \in LodTaken(j) : ORDERED_BUFFER_HANDLE(j, i) = h
     THEN ORDERED_BUFFER_MODE(j,
            CHOOSE i \in LodTaken(j) : ORDERED_BUFFER_HANDLE(j, i) = h)
     ELSE cm[h]]

\* The scan of a requester list from its head: the position of the first
\* requester whose job gets all its handles (0: none) and current_mode after
\* the attempts.
RECURSIVE LodScan(_, _, _)
LodScan(l, p, cm) ==
  IF p > Len(l) THEN [r |-> 0, cm |-> cm]
  ELSE IF all_arbiter_available(l[p].j)
       THEN [r |-> p, cm |-> LodModes(cm, l[p].j)]
       ELSE LodScan(l, p + 1, LodModes(cm, l[p].j))

\* ___starpu_submit_job_enforce_arbitered_deps: take every handle and push
\* the task, or record the job at the front of the list of every handle.
LodTryAcquire(j) ==
  LET H == HandlesOf(j)
      first(h) == CHOOSE i \in 0..(STARPU_TASK_GET_NBUFFERS(j) - 1) :
                    ORDERED_BUFFER_HANDLE(j, i) = h
  IN /\ current_mode' = LodModes(current_mode, j)
     /\ busy_count' = [h \in Handles |->
                         IF h \in H THEN busy_count[h] + 1 ELSE busy_count[h]]
     /\ IF all_arbiter_available(j)
        THEN /\ refcnt' = [h \in Handles |-> IF h \in H THEN 1 ELSE refcnt[h]]
             /\ holder' = [h \in Handles |->
                             IF h \in H THEN holder[h] \cup {j} ELSE holder[h]]
             /\ ready' = [ready EXCEPT ![j] = @ + 1]
             /\ pushed' = [pushed EXCEPT ![j] = @ + 1]
             /\ UNCHANGED <<arbitered_req_list, fifo, parked>>
        ELSE /\ arbitered_req_list' =
               [h \in Handles |->
                  IF h \in H
                  THEN << Requester(j, first(h), ORDERED_BUFFER_MODE(j, first(h))) >>
                         \o arbitered_req_list[h]
                  ELSE arbitered_req_list[h]]
             /\ fifo' = [h \in Handles |->
                           IF h \in H THEN Append(fifo[h], j) ELSE fifo[h]]
             /\ parked' = [parked EXCEPT ![j] = TRUE]
             /\ UNCHANGED <<refcnt, holder, ready, pushed>>

\* ___starpu_notify_arbitered_dependencies: promote the first requester of
\* the handle whose job gets all its handles, and push its task.
LodNotify(h) ==
  LET s == LodScan(arbitered_req_list[h], 1, current_mode)
      j == arbitered_req_list[h][s.r].j
      H == HandlesOf(j)
  IN /\ current_mode' = s.cm
     /\ IF s.r = 0
        THEN UNCHANGED <<refcnt, holder, ready, pushed, arbitered_req_list, fifo>>
        ELSE /\ refcnt' = [g \in Handles |-> IF g \in H THEN 1 ELSE refcnt[g]]
             /\ holder' = [g \in Handles |->
                             IF g \in H THEN holder[g] \cup {j} ELSE holder[g]]
             /\ arbitered_req_list' =
                  [g \in Handles |->
                     IF g \in H
                     THEN remove_job_from_requester_list(arbitered_req_list[g], j)
                     ELSE arbitered_req_list[g]]
             /\ fifo' = [g \in Handles |->
                           IF g \in H /\ FirstJob(fifo[g], j, 1) # 0
                           THEN RemoveAt(fifo[g], FirstJob(fifo[g], j, 1))
                           ELSE fifo[g]]
             /\ ready' = [ready EXCEPT ![j] = @ + 1]
             /\ pushed' = [pushed EXCEPT ![j] = @ + 1]
     /\ UNCHANGED <<busy_count, parked>>

\* The call returns to the submission, or to the termination of the task,
\* which goes on with the next handle.
LodReturn(th) ==
  IF lod[th].ctx = "notify" /\ torel[th] # {}
  THEN [LodIdle EXCEPT !.pc = "rel", !.ctx = "notify"]
  ELSE LodIdle

LodDone(th) ==
  IF lod[th].ctx = "notify" /\ torel[th] = {}
  THEN [done EXCEPT ![th] = @ + 1]
  ELSE done

\* The tasks are submitted in order, each once the previous call returned:
\* _starpu_submit_job_enforce_arbitered_deps posts the try-acquire.
LodSubmit(t) ==
  /\ LodAt(t, "idle") /\ ~submitted[t]
  /\ \A s \in Tasks : s < t => submitted[s] /\ lod[s].ctx # "submit"
  /\ submitted' = [submitted EXCEPT ![t] = TRUE]
  /\ lod' = [lod EXCEPT ![t] = [LodIdle EXCEPT !.pc = "lod_lock",
                                    !.ctx = "submit", !.func = SubmitFunc(t)]]
  /\ UNCHANGED <<hvars, shape, ready, pushed, done, loc, torel, gvars, abort,
                 working, dlTaskListHead, dlListLock, posted, executed, twice>>
  /\ UNCHANGED dvars
  /\ UNCHANGED wvars

\* A worker takes the pushed task, executes it, and starts releasing its data.
LodStartTermination(th) ==
  /\ LodAt(th, "idle") /\ ready[th] > 0
  /\ ready' = [ready EXCEPT ![th] = @ - 1]
  /\ torel' = [torel EXCEPT ![th] = HandlesOf(th)]
  /\ lod' = [lod EXCEPT ![th] = [LodIdle EXCEPT !.pc = "rel", !.ctx = "notify"]]
  /\ UNCHANGED <<hvars, shape, submitted, pushed, done, loc, gvars, abort,
                 working, dlTaskListHead, dlListLock, posted, executed, twice>>
  /\ UNCHANGED dvars
  /\ UNCHANGED wvars

\* The release of one handle under its header_lock, then
\* _starpu_notify_arbitered_dependencies posts the notify.
LodRelease(th, h) ==
  /\ LodAt(th, "rel") /\ h \in torel[th]
  /\ refcnt[h] > 0 /\ busy_count[h] > 0
  /\ refcnt' = [refcnt EXCEPT ![h] = @ - 1]
  /\ busy_count' = [busy_count EXCEPT ![h] = @ - 1]
  /\ holder' = [holder EXCEPT ![h] = @ \ {th}]
  /\ torel' = [torel EXCEPT ![th] = @ \ {h}]
  /\ lod' = [lod EXCEPT ![th].pc = "lod_lock", ![th].func = NotifyFunc(th, h)]
  /\ UNCHANGED <<arbiter, current_mode, arbitered_req_list, header_lock, mutex,
                 tvars, loc, fifo, parked, abort,
                 working, dlTaskListHead, dlListLock, posted, executed, twice>>
  /\ UNCHANGED dvars
  /\ UNCHANGED wvars

\* _starpu_spin_lock(&arbiter->dlListLock)
LodLock(th) ==
  /\ LodAt(th, "lod_lock") /\ dlListLock = 0
  /\ dlListLock' = th
  /\ lod' = [lod EXCEPT ![th].pc = "lod_test"]
  /\ UNCHANGED <<hvars, tvars, loc, torel, gvars, abort,
                 working, dlTaskListHead, posted, executed, twice>>
  /\ UNCHANGED dvars
  /\ UNCHANGED wvars

\* "if (arbiter->working)": the node is inserted at the head of the list and
\* the call returns 0; else the thread becomes the worker and takes the list.
LodTest(th) ==
  /\ LodAt(th, "lod_test")
  /\ posted' = posted \cup {lod[th].func}
  /\ dlListLock' = 0
  /\ IF working = 1
     THEN /\ dlTaskListHead' = << lod[th].func >> \o dlTaskListHead
          /\ lod' = [lod EXCEPT ![th] = LodReturn(th)]
          /\ done' = LodDone(th)
          /\ UNCHANGED working
     ELSE /\ working' = 1
          /\ dlTaskListHead' = <<>>
          /\ lod' = [lod EXCEPT ![th].pc = "lod_first",
                                ![th].iter = dlTaskListHead]
          /\ UNCHANGED done
  /\ UNCHANGED <<hvars, shape, submitted, ready, pushed, loc, torel, gvars,
                 abort, executed, twice>>
  /\ UNCHANGED dvars
  /\ UNCHANGED wvars

\* "while (iter != NULL)": the worker calls the function of the next node it
\* took, and after the last one its own function.
LodFirst(th) ==
  /\ LodAt(th, "lod_first")
  /\ lod' = [lod EXCEPT ![th].pc = "lod_run",
                        ![th].cur = IF lod[th].iter # <<>>
                                    THEN Head(lod[th].iter) ELSE lod[th].func,
                        ![th].origin = IF lod[th].iter # <<>>
                                       THEN "first" ELSE "own"]
  /\ UNCHANGED <<hvars, tvars, loc, torel, gvars, abort,
                 working, dlTaskListHead, dlListLock, posted, executed, twice>>
  /\ UNCHANGED dvars
  /\ UNCHANGED wvars

\* "(*iter->func)(iter->data)": the function runs.  In the first loop the
\* node is then freed before its next field is read: the read gives the next
\* node or faults.
LodRun(th) ==
  /\ LodAt(th, "lod_run")
  /\ LET f == lod[th].cur
     IN /\ IF f.kind = "submit" THEN LodTryAcquire(f.j) ELSE LodNotify(f.h)
        /\ executed' = executed \cup {f}
        /\ twice' = IF f \in executed THEN twice \cup {f} ELSE twice
  /\ IF lod[th].origin = "first"
     THEN \/ /\ lod' = [lod EXCEPT ![th].pc = "lod_first",
                                   ![th].iter = Tail(@)]
             /\ UNCHANGED abort
          \/ /\ abort' = "iter->next read after free(iter)"
             /\ UNCHANGED lod
     ELSE /\ lod' = [lod EXCEPT ![th].pc = "lod_relock"]
          /\ UNCHANGED abort
  /\ UNCHANGED <<arbiter, header_lock, mutex, shape, submitted, done, loc,
                 torel, working, dlTaskListHead, dlListLock, posted>>
  /\ UNCHANGED dvars
  /\ UNCHANGED wvars

\* _starpu_spin_lock(&arbiter->dlListLock) before the delegated work.
LodRelock(th) ==
  /\ LodAt(th, "lod_relock") /\ dlListLock = 0
  /\ dlListLock' = th
  /\ lod' = [lod EXCEPT ![th].pc = "lod_drain"]
  /\ UNCHANGED <<hvars, tvars, loc, torel, gvars, abort,
                 working, dlTaskListHead, posted, executed, twice>>
  /\ UNCHANGED dvars
  /\ UNCHANGED wvars

\* "while (arbiter->dlTaskListHead != 0)": the head node is taken and run
\* with the lock released; once the list is empty working is reset and the
\* call returns 1.
LodDrain(th) ==
  /\ LodAt(th, "lod_drain")
  /\ dlListLock' = 0
  /\ IF dlTaskListHead # <<>>
     THEN /\ dlTaskListHead' = Tail(dlTaskListHead)
          /\ lod' = [lod EXCEPT ![th].pc = "lod_run",
                                ![th].cur = Head(dlTaskListHead),
                                ![th].origin = "drain"]
          /\ UNCHANGED <<working, done>>
     ELSE /\ working' = 0
          /\ lod' = [lod EXCEPT ![th] = LodReturn(th)]
          /\ done' = LodDone(th)
          /\ UNCHANGED dlTaskListHead
  /\ UNCHANGED <<hvars, shape, submitted, ready, pushed, loc, torel, gvars,
                 abort, posted, executed, twice>>
  /\ UNCHANGED dvars
  /\ UNCHANGED wvars

\* Every handle was assigned to the arbiter before any task is submitted.
DelegateInit ==
  /\ arbiter = [h \in Handles |-> 1]
  /\ refcnt = [h \in Handles |-> 0]
  /\ busy_count = [h \in Handles |-> 0]
  /\ current_mode = [h \in Handles |-> "NONE"]
  /\ arbitered_req_list = [h \in Handles |-> <<>>]
  /\ header_lock = [h \in Handles |-> 0]
  /\ mutex = [a \in Arbiters |-> 0]
  /\ shape \in [Tasks -> 1..SeqShapes]
  /\ submitted = [t \in Tasks |-> FALSE]
  /\ ready = [t \in Tasks |-> 0]
  /\ pushed = [t \in Tasks |-> 0]
  /\ done = [t \in Tasks |-> 0]
  /\ loc = [t \in Tasks |-> Idle]
  /\ torel = [t \in Tasks |-> {}]
  /\ holder = [h \in Handles |-> {}]
  /\ fifo = [h \in Handles |-> <<>>]
  /\ parked = [t \in Tasks |-> FALSE]
  /\ abort = ""
  /\ LodInit
  /\ DispatchVarsInit
  /\ WorkersVarsInit

LodStep(th) ==
  \/ LodLock(th)
  \/ LodTest(th)
  \/ LodFirst(th)
  \/ LodRun(th)
  \/ LodRelock(th)
  \/ LodDrain(th)

DelegateNext ==
  \/ \E t \in Tasks : LodSubmit(t)
  \/ \E th \in Tasks : LodStartTermination(th)
  \/ \E th \in Tasks : \E h \in Handles : LodRelease(th, h)
  \/ \E th \in Tasks : LodStep(th)

DelegateSpec == DelegateInit /\ [][DelegateNext]_vars

\* ------------------------------- dispatcher of non-arbitered handles
\* The acquisition and release protocols of the handles that have no arbiter.
\* Each step runs under the header_lock of one handle.
Commute(m) == m \in {"WC", "RWC"}

\* Variant: COMMUTE accesses are not compatible with each other.
Compatible_NoCommute(a, b) ==
  \/ a = "R" /\ b = "R"
  \/ a = "REDUX" /\ b = "REDUX"

\* Two accesses are compatible iff both are R, or both carry COMMUTE and
\* neither is SCRATCH or REDUX, or both are REDUX.
Compatible(a, b) ==
  \/ a = "R" /\ b = "R"
  \/ Commute(a) /\ Commute(b)
  \/ a = "REDUX" /\ b = "REDUX"

\* The join of the old and the new mode of compatible accesses.
JoinMode(a, b) ==
  IF a = b THEN a
  ELSE IF Commute(a) /\ Commute(b) THEN "RWC"
  ELSE "RW"

\* The task waits in the queue of a handle.
Waiting(t) == \E h \in Handles : FirstOf(queue[h], t, 1) # 0

\* Variant: a task with zero buffers waits for the walk of its buffer list.
DispatchSubmit_WalkEmpty(t) ==
  /\ abort = "" /\ ~submitted[t]
  /\ \A s \in Tasks : s < t => submitted[s] /\ walk[s] # "submit"
  /\ \A h \in HandlesOf(t) : arbiter[h] = NULL
  /\ submitted' = [submitted EXCEPT ![t] = TRUE]
  /\ unmet' = [unmet EXCEPT ![t] = STARPU_TASK_GET_NBUFFERS(t)]
  /\ IF STARPU_TASK_GET_NBUFFERS(t) < 0
     THEN /\ ready' = [ready EXCEPT ![t] = @ + 1]
          /\ pushed' = [pushed EXCEPT ![t] = @ + 1]
          /\ UNCHANGED walk
     ELSE /\ walk' = [walk EXCEPT ![t] = "submit"]
          /\ UNCHANGED <<ready, pushed>>
  /\ UNCHANGED <<hvars, shape, done, loc, torel, gvars, abort, lvars, queue>>
  /\ UNCHANGED wvars

\* The tasks are submitted in order, each once the previous submission
\* returned.  A task with zero buffers is Ready immediately.
DispatchSubmit(t) ==
  /\ abort = "" /\ ~submitted[t]
  /\ \A s \in Tasks : s < t => submitted[s] /\ walk[s] # "submit"
  /\ \A h \in HandlesOf(t) : arbiter[h] = NULL
  /\ submitted' = [submitted EXCEPT ![t] = TRUE]
  /\ unmet' = [unmet EXCEPT ![t] = STARPU_TASK_GET_NBUFFERS(t)]
  /\ IF STARPU_TASK_GET_NBUFFERS(t) = 0
     THEN /\ ready' = [ready EXCEPT ![t] = @ + 1]
          /\ pushed' = [pushed EXCEPT ![t] = @ + 1]
          /\ UNCHANGED walk
     ELSE /\ walk' = [walk EXCEPT ![t] = "submit"]
          /\ UNCHANGED <<ready, pushed>>
  /\ UNCHANGED <<hvars, shape, done, loc, torel, gvars, abort, lvars, queue>>
  /\ UNCHANGED wvars

\* Variant: the reference is taken although requesters wait in the queue.
DispatchAcquire_JumpQueue(t) ==
  /\ abort = "" /\ walk[t] # "none" /\ unmet[t] > 0
  /\ LET i == STARPU_TASK_GET_NBUFFERS(t) - unmet[t]
         h == ORDERED_BUFFER_HANDLE(t, i)
         m == ORDERED_BUFFER_MODE(t, i)
     IN IF (refcnt[h] = 0 \/ Compatible(m, current_mode[h]))
        THEN /\ refcnt' = [refcnt EXCEPT ![h] = @ + 1]
             /\ busy_count' = [busy_count EXCEPT ![h] = @ + 1]
             /\ current_mode' = [current_mode EXCEPT ![h] =
                  IF refcnt[h] = 0 THEN m ELSE JoinMode(@, m)]
             /\ holder' = [holder EXCEPT ![h] = @ \cup {t}]
             /\ unmet' = [unmet EXCEPT ![t] = @ - 1]
             /\ IF unmet[t] = 1
                THEN /\ ready' = [ready EXCEPT ![t] = @ + 1]
                     /\ pushed' = [pushed EXCEPT ![t] = @ + 1]
                     /\ walk' = [walk EXCEPT ![t] = "none"]
                ELSE UNCHANGED <<ready, pushed, walk>>
             /\ UNCHANGED <<queue, parked>>
        ELSE /\ queue' = [queue EXCEPT ![h] = Append(@, Requester(t, i, m))]
             /\ busy_count' = [busy_count EXCEPT ![h] = @ + 1]
             /\ parked' = [parked EXCEPT ![t] = TRUE]
             /\ walk' = [walk EXCEPT ![t] = "none"]
             /\ UNCHANGED <<refcnt, current_mode, holder, unmet, ready, pushed>>
  /\ UNCHANGED <<arbiter, arbitered_req_list, header_lock, mutex, shape,
                 submitted, done, loc, torel, fifo, abort, lvars>>
  /\ UNCHANGED wvars

\* The next buffer of the task: the reference is taken at once if the queue
\* is empty and the request is compatible with current_mode or the handle is
\* free; otherwise the task is parked at the tail of the queue.  After the
\* last buffer the task is Ready.
DispatchAcquire(t) ==
  /\ abort = "" /\ walk[t] # "none" /\ unmet[t] > 0
  /\ LET i == STARPU_TASK_GET_NBUFFERS(t) - unmet[t]
         h == ORDERED_BUFFER_HANDLE(t, i)
         m == ORDERED_BUFFER_MODE(t, i)
     IN IF queue[h] = <<>> /\ (refcnt[h] = 0 \/ Compatible(m, current_mode[h]))
        THEN /\ refcnt' = [refcnt EXCEPT ![h] = @ + 1]
             /\ busy_count' = [busy_count EXCEPT ![h] = @ + 1]
             /\ current_mode' = [current_mode EXCEPT ![h] =
                  IF refcnt[h] = 0 THEN m ELSE JoinMode(@, m)]
             /\ holder' = [holder EXCEPT ![h] = @ \cup {t}]
             /\ unmet' = [unmet EXCEPT ![t] = @ - 1]
             /\ IF unmet[t] = 1
                THEN /\ ready' = [ready EXCEPT ![t] = @ + 1]
                     /\ pushed' = [pushed EXCEPT ![t] = @ + 1]
                     /\ walk' = [walk EXCEPT ![t] = "none"]
                ELSE UNCHANGED <<ready, pushed, walk>>
             /\ UNCHANGED <<queue, parked>>
        ELSE /\ queue' = [queue EXCEPT ![h] = Append(@, Requester(t, i, m))]
             /\ busy_count' = [busy_count EXCEPT ![h] = @ + 1]
             /\ parked' = [parked EXCEPT ![t] = TRUE]
             /\ walk' = [walk EXCEPT ![t] = "none"]
             /\ UNCHANGED <<refcnt, current_mode, holder, unmet, ready, pushed>>
  /\ UNCHANGED <<arbiter, arbitered_req_list, header_lock, mutex, shape,
                 submitted, done, loc, torel, fifo, abort, lvars>>
  /\ UNCHANGED wvars

\* A worker takes the Ready task, runs it and starts releasing its buffers; a
\* task with no buffer is Done at once.
DispatchStartTermination(t) ==
  /\ abort = "" /\ ready[t] > 0 /\ submitted[t] /\ unmet[t] = 0
  /\ \A h \in HandlesOf(t) : arbiter[h] = NULL /\ t \in holder[h]
  /\ ready' = [ready EXCEPT ![t] = @ - 1]
  /\ torel' = [torel EXCEPT ![t] = HandlesOf(t)]
  /\ done' = [done EXCEPT ![t] = IF HandlesOf(t) = {} THEN @ + 1 ELSE @]
  /\ UNCHANGED <<hvars, shape, submitted, pushed, loc, gvars, abort, lvars,
                 dvars>>
  /\ UNCHANGED wvars

\* The number of requesters at the head of the queue that are promoted
\* together: the head is promoted while it is compatible with current_mode
\* or the handle is free.
RECURSIVE Cohort(_, _, _, _)
Cohort(q, p, rc, cm) ==
  IF p <= Len(q) /\ (rc = 0 \/ Compatible(q[p].mode, cm))
  THEN Cohort(q, p + 1, rc + 1, IF rc = 0 THEN q[p].mode ELSE JoinMode(cm, q[p].mode))
  ELSE [n |-> p - 1, cm |-> cm]

\* The release of one buffer of a completed task: ref_count and busy_count
\* are decremented and the compatible head requesters are promoted; a
\* promoted task whose unmet reaches zero is Ready, another goes on with its
\* later buffers.
DispatchRelease(t, h) ==
  /\ abort = "" /\ h \in torel[t] /\ arbiter[h] = NULL
  /\ refcnt[h] > 0 /\ busy_count[h] > 0
  /\ LET c == Cohort(queue[h], 1, refcnt[h] - 1, current_mode[h])
         P == {queue[h][p].j : p \in 1..c.n}
     IN /\ refcnt' = [refcnt EXCEPT ![h] = @ - 1 + c.n]
        /\ busy_count' = [busy_count EXCEPT ![h] = @ - 1]
        /\ current_mode' = [current_mode EXCEPT ![h] = c.cm]
        /\ queue' = [queue EXCEPT ![h] = SubSeq(@, c.n + 1, Len(@))]
        /\ holder' = [holder EXCEPT ![h] = (@ \ {t}) \cup P]
        /\ unmet' = [s \in Tasks |-> IF s \in P THEN unmet[s] - 1 ELSE unmet[s]]
        /\ ready' = [s \in Tasks |->
                       IF s \in P /\ unmet[s] = 1 THEN ready[s] + 1 ELSE ready[s]]
        /\ pushed' = [s \in Tasks |->
                        IF s \in P /\ unmet[s] = 1 THEN pushed[s] + 1 ELSE pushed[s]]
        /\ walk' = [s \in Tasks |->
                      IF s \in P /\ unmet[s] > 1 THEN "promote" ELSE walk[s]]
  /\ torel' = [torel EXCEPT ![t] = @ \ {h}]
  /\ done' = [done EXCEPT ![t] = IF torel[t] = {h} THEN @ + 1 ELSE @]
  /\ UNCHANGED <<arbiter, arbitered_req_list, header_lock, mutex, shape,
                 submitted, loc, fifo, parked, abort, lvars>>
  /\ UNCHANGED wvars

\* The loop of the latency test on its task with no buffer: once
\* starpu_tag_wait returned, the same task is submitted again.
TagWaitThenSubmit(t) ==
  /\ abort = "" /\ submitted[t] /\ STARPU_TASK_GET_NBUFFERS(t) = 0
  /\ done[t] = pushed[t] /\ pushed[t] < ntasks
  /\ ready' = [ready EXCEPT ![t] = @ + 1]
  /\ pushed' = [pushed EXCEPT ![t] = @ + 1]
  /\ UNCHANGED <<hvars, shape, submitted, done, loc, torel, gvars, abort,
                 lvars, dvars>>
  /\ UNCHANGED wvars

\* The tasks the application submits to the dispatcher: a writer, a reader
\* or a commuting writer of handle 1, a task with no buffer, and the writers
\* of handle 2 and of both handles.
DispatchShapes == {1, 2, 3, ReadShape, CommuteShape, EmptyShape}

DispatchInit == InitShapes([Tasks -> DispatchShapes])

DispatchNext ==
  \/ \E t \in Tasks : DispatchSubmit(t)
  \/ \E t \in Tasks : DispatchAcquire(t)
  \/ \E t \in Tasks : DispatchStartTermination(t)
  \/ \E t \in Tasks : \E h \in Handles : DispatchRelease(t, h)
  \/ \E t \in Tasks : TagWaitThenSubmit(t)

DispatchSpec == DispatchInit /\ [][DispatchNext]_vars

\* The policy eventually pops a Ready task and the worker completes it; the
\* test goes on with its loop.
DispatchLiveSpec ==
  /\ DispatchSpec
  /\ \A t \in Tasks : WF_vars(DispatchStartTermination(t))
  /\ \A t \in Tasks : WF_vars(TagWaitThenSubmit(t))

\* ------------------------------- starpu_initialize and starpu_shutdown
\* The build without STARPU_USE_MP.  A thread calls starpu_initialize with a
\* configuration whose magic is 42 (or NULL) or is not, and starpu_shutdown.
WAt(th, p) == abort = "" /\ wloc[th].pc = p

WOut == [pc |-> "out", conf |-> "none", next |-> "none"]

\* The variables of the dependency core and of the pause, which these calls
\* leave alone.
corevars == <<hvars, tvars, loc, torel, gvars, lvars, dvars, pvars, lnvars,
              we, lat, lth>>

\* The application calls starpu_initialize(user_conf, ...).
InitCall(th, conf) ==
  /\ WAt(th, "out") /\ tally.initialize < MaxCalls
  /\ wloc' = [wloc EXCEPT ![th] = [pc |-> "lock", conf |-> conf, next |-> "i_check"]]
  /\ tally' = [tally EXCEPT !.initialize = @ + 1]
  /\ UNCHANGED <<init_mutex, init_cond, init_count, initialized, owed, abort,
                 corevars>>

\* STARPU_PTHREAD_MUTEX_LOCK(&init_mutex), also on return from
\* STARPU_PTHREAD_COND_WAIT.
MutexLock(th) ==
  /\ WAt(th, "lock") /\ init_mutex = 0
  /\ init_mutex' = th
  /\ wloc' = [wloc EXCEPT ![th].pc = wloc[th].next]
  /\ UNCHANGED <<init_cond, init_count, initialized, tally, owed, abort,
                 corevars>>

\* Variant: starpu_initialize does not wait while initialized == CHANGING.
InitCheck_NoWait(th) ==
  /\ WAt(th, "i_check")
  /\ init_mutex' = 0
  /\ IF FALSE
     THEN /\ init_cond' = init_cond \cup {th}
          /\ wloc' = [wloc EXCEPT ![th].pc = "wait"]
          /\ UNCHANGED <<init_count, initialized, tally, owed>>
     ELSE /\ init_count' = init_count + 1
          /\ UNCHANGED init_cond
          /\ IF initialized = "INITIALIZED"
             THEN /\ wloc' = [wloc EXCEPT ![th].pc = "i_ret"]
                  /\ tally' = [tally EXCEPT !.counted = @ + 1, !.ok = @ + 1]
                  /\ UNCHANGED initialized
             ELSE /\ initialized' = "CHANGING"
                  /\ wloc' = [wloc EXCEPT ![th].pc = "i_body"]
                  /\ tally' = [tally EXCEPT !.counted = @ + 1]
          /\ UNCHANGED owed
  /\ UNCHANGED <<abort, corevars>>

\* "while (initialized == CHANGING) COND_WAIT", then init_count++ and
\* either the return of 0 from an initialized runtime or the entry into the
\* initialization with initialized = CHANGING.
InitCheck(th) ==
  /\ WAt(th, "i_check")
  /\ init_mutex' = 0
  /\ IF initialized = "CHANGING"
     THEN /\ init_cond' = init_cond \cup {th}
          /\ wloc' = [wloc EXCEPT ![th].pc = "wait"]
          /\ UNCHANGED <<init_count, initialized, tally, owed>>
     ELSE /\ init_count' = init_count + 1
          /\ UNCHANGED init_cond
          /\ IF initialized = "INITIALIZED"
             THEN /\ wloc' = [wloc EXCEPT ![th].pc = "i_ret"]
                  /\ tally' = [tally EXCEPT !.counted = @ + 1, !.ok = @ + 1]
                  /\ UNCHANGED initialized
             ELSE /\ initialized' = "CHANGING"
                  /\ wloc' = [wloc EXCEPT ![th].pc = "i_body"]
                  /\ tally' = [tally EXCEPT !.counted = @ + 1]
          /\ UNCHANGED owed
  /\ UNCHANGED <<abort, corevars>>

\* The initialization up to the check of the configuration: "if
\* (user_conf->magic != 42) return -EINVAL".
InitConf(th) ==
  /\ WAt(th, "i_body")
  /\ IF wloc[th].conf = "bad magic"
     THEN /\ wloc' = [wloc EXCEPT ![th] = WOut]
          /\ tally' = [tally EXCEPT !.failed = @ + 1]
     ELSE /\ wloc' = [wloc EXCEPT ![th].pc = "i_topology"]
          /\ UNCHANGED tally
  /\ UNCHANGED <<init_mutex, init_cond, init_count, initialized, owed, abort,
                 corevars>>

\* "ret = _starpu_build_topology(...)": it fails or the initialization goes
\* on to its end; in both cases init_mutex is locked next.
InitTopology(th) ==
  /\ WAt(th, "i_topology")
  /\ \E ret \in {"i_fail", "i_ok"} :
       wloc' = [wloc EXCEPT ![th].pc = "lock", ![th].next = ret]
  /\ UNCHANGED <<init_mutex, init_cond, init_count, initialized, tally, owed,
                 abort, corevars>>

\* STARPU_PTHREAD_COND_SIGNAL(&init_cond): one waiting thread, if any, is
\* woken up and has to lock init_mutex again.
Signalled(w) ==
  [u \in Tasks |-> IF u = w THEN [wloc[u] EXCEPT !.pc = "lock"] ELSE wloc[u]]

\* "if (ret && !is_a_sink)": init_count--, initialized = UNINITIALIZED, one
\* waiter is signalled, and ret is returned.
InitFail(th) ==
  /\ WAt(th, "i_fail")
  /\ init_mutex' = 0
  /\ init_count' = init_count - 1
  /\ initialized' = "UNINITIALIZED"
  /\ tally' = [tally EXCEPT !.failed = @ + 1]
  /\ IF init_cond = {}
     THEN wloc' = [wloc EXCEPT ![th] = WOut] /\ UNCHANGED init_cond
     ELSE \E w \in init_cond :
            /\ init_cond' = init_cond \ {w}
            /\ wloc' = [Signalled(w) EXCEPT ![th] = WOut]
  /\ UNCHANGED <<owed, abort, corevars>>

\* "initialized = INITIALIZED; STARPU_PTHREAD_COND_BROADCAST(&init_cond)"
InitOk(th) ==
  /\ WAt(th, "i_ok")
  /\ init_mutex' = 0
  /\ initialized' = "INITIALIZED"
  /\ init_cond' = {}
  /\ wloc' = [u \in Tasks |->
                IF u = th THEN [wloc[u] EXCEPT !.pc = "i_ret"]
                ELSE IF u \in init_cond THEN [wloc[u] EXCEPT !.pc = "lock"]
                ELSE wloc[u]]
  /\ tally' = [tally EXCEPT !.ok = @ + 1]
  /\ UNCHANGED <<init_count, owed, abort, corevars>>

\* "return 0"
InitReturn(th) ==
  /\ WAt(th, "i_ret")
  /\ wloc' = [wloc EXCEPT ![th] = WOut]
  /\ owed' = [owed EXCEPT ![th] = @ + 1]
  /\ UNCHANGED <<init_mutex, init_cond, init_count, initialized, tally, abort,
                 corevars>>

\* The application calls starpu_shutdown().
ShutdownCall(th) ==
  /\ WAt(th, "out")
  /\ tally.shutdown <= tally.initialize
  /\ wloc' = [wloc EXCEPT ![th] = [pc |-> "lock", conf |-> "none", next |-> "s_check"]]
  /\ tally' = [tally EXCEPT !.shutdown = @ + 1]
  /\ owed' = [owed EXCEPT ![th] = IF @ > 0 THEN @ - 1 ELSE 0]
  /\ UNCHANGED <<init_mutex, init_cond, init_count, initialized, abort,
                 corevars>>

\* Variant: every starpu_shutdown tears the runtime down.
ShutdownCheck_AlwaysLast(th) ==
  /\ WAt(th, "s_check")
  /\ init_count' = init_count - 1
  /\ tally' = [tally EXCEPT !.decremented = @ + 1]
  /\ IF init_count - 1 < 0
     THEN /\ abort' = "Number of calls to starpu_shutdown() can not be higher than the number of calls to starpu_init()"
          /\ UNCHANGED <<init_mutex, initialized, wloc>>
     ELSE /\ init_mutex' = 0
          /\ UNCHANGED abort
          /\ IF init_count - 1 # 0
             THEN /\ initialized' = "CHANGING"
                  /\ wloc' = [wloc EXCEPT ![th].pc = "s_body"]
             ELSE /\ initialized' = "CHANGING"
                  /\ wloc' = [wloc EXCEPT ![th].pc = "s_body"]
  /\ UNCHANGED <<init_cond, owed, corevars>>

\* "init_count--; STARPU_ASSERT_MSG(init_count >= 0, ...); if (init_count)
\* return;" and for the last one "initialized = CHANGING".
ShutdownCheck(th) ==
  /\ WAt(th, "s_check")
  /\ init_count' = init_count - 1
  /\ tally' = [tally EXCEPT !.decremented = @ + 1]
  /\ IF init_count - 1 < 0
     THEN /\ abort' = "Number of calls to starpu_shutdown() can not be higher than the number of calls to starpu_init()"
          /\ UNCHANGED <<init_mutex, initialized, wloc>>
     ELSE /\ init_mutex' = 0
          /\ UNCHANGED abort
          /\ IF init_count - 1 # 0
             THEN wloc' = [wloc EXCEPT ![th] = WOut] /\ UNCHANGED initialized
             ELSE /\ initialized' = "CHANGING"
                  /\ wloc' = [wloc EXCEPT ![th].pc = "s_body"]
  /\ UNCHANGED <<init_cond, owed, corevars>>

\* The teardown: the workers are terminated, then init_mutex is locked.
ShutdownBody(th) ==
  /\ WAt(th, "s_body")
  /\ wloc' = [wloc EXCEPT ![th].pc = "lock", ![th].next = "s_done"]
  /\ UNCHANGED <<init_mutex, init_cond, init_count, initialized, tally, owed,
                 abort, corevars>>

\* "initialized = UNINITIALIZED; STARPU_PTHREAD_COND_SIGNAL(&init_cond)"
ShutdownDone(th) ==
  /\ WAt(th, "s_done")
  /\ init_mutex' = 0
  /\ initialized' = "UNINITIALIZED"
  /\ IF init_cond = {}
     THEN wloc' = [wloc EXCEPT ![th] = WOut] /\ UNCHANGED init_cond
     ELSE \E w \in init_cond :
            /\ init_cond' = init_cond \ {w}
            /\ wloc' = [Signalled(w) EXCEPT ![th] = WOut]
  /\ UNCHANGED <<init_count, tally, owed, abort, corevars>>

_starpu_is_initialized == initialized = "INITIALIZED"

WorkersStep(th) ==
  \/ MutexLock(th)
  \/ InitCheck(th)
  \/ InitConf(th)
  \/ InitTopology(th)
  \/ InitFail(th)
  \/ InitOk(th)
  \/ InitReturn(th)
  \/ ShutdownCheck(th)
  \/ ShutdownBody(th)
  \/ ShutdownDone(th)

\* Any thread calls starpu_initialize and starpu_shutdown at any time.
WorkersNext ==
  \/ \E th \in Tasks : \E conf \in {"magic 42", "bad magic"} : InitCall(th, conf)
  \/ \E th \in Tasks : ShutdownCall(th)
  \/ \E th \in Tasks : WorkersStep(th)

WorkersInit == InitShapes({[t \in Tasks |-> 1]})

WorkersSpec == WorkersInit /\ [][WorkersNext]_vars

\* A thread calls starpu_shutdown only after a call of its own to
\* starpu_initialize returned 0, once for each.
OwnShutdownCall(th) == owed[th] > 0 /\ ShutdownCall(th)

OwnNext ==
  \/ \E th \in Tasks : \E conf \in {"magic 42", "bad magic"} : InitCall(th, conf)
  \/ \E th \in Tasks : OwnShutdownCall(th)
  \/ \E th \in Tasks : WorkersStep(th)

OwnSpec == WorkersInit /\ [][OwnNext]_vars

\* Every thread inside starpu_initialize or starpu_shutdown goes on running:
\* the steps of the initialization and of the teardown terminate, and a
\* thread that can lock init_mutex eventually does.
OwnLiveSpec == OwnSpec /\ \A th \in Tasks : WF_vars(WorkersStep(th))

\* ------------------- _starpu_may_pause, starpu_pause and starpu_resume
\* A worker calls _starpu_may_pause between two tasks; any thread of the
\* application calls starpu_pause, and starpu_resume after a starpu_pause of
\* its own.  pause_depth is read and written without a lock by starpu_pause
\* and by the first test of _starpu_may_pause: each access is a step.
PAt(th, p) == abort = "" /\ ploc[th].pc = p

PGoto(th, p) == ploc' = [ploc EXCEPT ![th].pc = p]

\* The variables that the pause functions leave alone.
nonpause == <<hvars, tvars, loc, torel, gvars, abort, lvars, dvars, init_mutex,
              init_cond, init_count, initialized, wloc, tally, owed, lnvars,
              we, lat, lth>>

\* The worker calls _starpu_may_pause: STARPU_RMB().
MayPauseCall(th) ==
  /\ PAt(th, "out")
  /\ PGoto(th, "mp_check")
  /\ UNCHANGED <<pause_depth, pause_mutex, pause_cond, nonpause>>

\* "if (STARPU_UNLIKELY(_starpu_config.pause_depth > 0))", without the mutex.
MayPauseCheck(th) ==
  /\ PAt(th, "mp_check")
  /\ PGoto(th, IF pause_depth > 0 THEN "mp_lock" ELSE "out")
  /\ UNCHANGED <<pause_depth, pause_mutex, pause_cond, nonpause>>

\* STARPU_PTHREAD_MUTEX_LOCK(&pause_mutex), also on return from
\* STARPU_PTHREAD_COND_WAIT.
MayPauseLock(th) ==
  /\ PAt(th, "mp_lock") \/ PAt(th, "mp_relock")
  /\ pause_mutex = 0
  /\ pause_mutex' = th
  /\ PGoto(th, IF ploc[th].pc = "mp_lock" THEN "mp_recheck" ELSE "mp_unlock")
  /\ UNCHANGED <<pause_depth, pause_cond, nonpause>>

\* "if (_starpu_config.pause_depth > 0)" with the mutex held.
MayPauseRecheck(th) ==
  /\ PAt(th, "mp_recheck")
  /\ PGoto(th, IF pause_depth > 0 THEN "mp_cond_wait" ELSE "mp_unlock")
  /\ UNCHANGED <<pause_depth, pause_mutex, pause_cond, nonpause>>

\* STARPU_PTHREAD_COND_WAIT(&pause_cond, &pause_mutex): the thread unlocks
\* the mutex and waits, atomically.
MayPauseWait(th) ==
  /\ PAt(th, "mp_cond_wait")
  /\ pause_mutex' = 0
  /\ pause_cond' = pause_cond \cup {th}
  /\ PGoto(th, "mp_wait")
  /\ UNCHANGED <<pause_depth, nonpause>>

\* STARPU_PTHREAD_MUTEX_UNLOCK(&pause_mutex) and the return.
MayPauseUnlock(th) ==
  /\ PAt(th, "mp_unlock")
  /\ pause_mutex' = 0
  /\ PGoto(th, "out")
  /\ UNCHANGED <<pause_depth, pause_cond, nonpause>>

\* starpu_pause: the read of "_starpu_config.pause_depth += 1".
PauseRead(th) ==
  /\ PAt(th, "out")
  /\ ploc[1].calls + ploc[2].calls + ploc[3].calls < MaxPauses
  /\ ploc' = [ploc EXCEPT ![th].pc = "pa_write", ![th].tmp = pause_depth,
                          ![th].calls = @ + 1]
  /\ UNCHANGED <<pause_depth, pause_mutex, pause_cond, nonpause>>

\* starpu_pause: the write of "_starpu_config.pause_depth += 1".
PauseWrite(th) ==
  /\ PAt(th, "pa_write")
  /\ pause_depth' = ploc[th].tmp + 1
  /\ ploc' = [ploc EXCEPT ![th].pc = "out", ![th].paused = @ + 1]
  /\ UNCHANGED <<pause_mutex, pause_cond, nonpause>>

\* The application calls starpu_resume.
ResumeCall(th) ==
  /\ PAt(th, "out") /\ ploc[th].paused > 0
  /\ ploc' = [ploc EXCEPT ![th].pc = "rs_lock", ![th].paused = @ - 1]
  /\ UNCHANGED <<pause_depth, pause_mutex, pause_cond, nonpause>>

\* Variant: starpu_resume does not lock pause_mutex.
ResumeLock_NoLock(th) ==
  /\ PAt(th, "rs_lock")
  /\ PGoto(th, "rs_read")
  /\ UNCHANGED <<pause_depth, pause_mutex, pause_cond, nonpause>>

\* STARPU_PTHREAD_MUTEX_LOCK(&pause_mutex).
ResumeLock(th) ==
  /\ PAt(th, "rs_lock")
  /\ pause_mutex = 0
  /\ pause_mutex' = th
  /\ PGoto(th, "rs_read")
  /\ UNCHANGED <<pause_depth, pause_cond, nonpause>>

\* The read of "_starpu_config.pause_depth -= 1".
ResumeRead(th) ==
  /\ PAt(th, "rs_read")
  /\ ploc' = [ploc EXCEPT ![th].pc = "rs_write", ![th].tmp = pause_depth]
  /\ UNCHANGED <<pause_depth, pause_mutex, pause_cond, nonpause>>

\* The write of "_starpu_config.pause_depth -= 1".
ResumeWrite(th) ==
  /\ PAt(th, "rs_write")
  /\ pause_depth' = ploc[th].tmp - 1
  /\ ploc' = [ploc EXCEPT ![th].pc = "rs_test", ![th].tmp = @ - 1]
  /\ UNCHANGED <<pause_mutex, pause_cond, nonpause>>

\* STARPU_PTHREAD_COND_BROADCAST(&pause_cond): every waiting thread is woken
\* up and has to lock pause_mutex again.
Broadcast ==
  [u \in Tasks |-> IF u \in pause_cond THEN [ploc[u] EXCEPT !.pc = "mp_relock"]
                   ELSE ploc[u]]

\* "if (!_starpu_config.pause_depth) STARPU_PTHREAD_COND_BROADCAST": the
\* value tested is the one just written or, starpu_pause writing without the
\* mutex, the one read again from memory.
ResumeTest(th) ==
  /\ PAt(th, "rs_test")
  /\ \E v \in {ploc[th].tmp, pause_depth} :
       IF v = 0
       THEN /\ ploc' = [Broadcast EXCEPT ![th].pc = "rs_unlock"]
            /\ pause_cond' = {}
       ELSE /\ PGoto(th, "rs_unlock")
            /\ UNCHANGED pause_cond
  /\ UNCHANGED <<pause_depth, pause_mutex, nonpause>>

\* STARPU_PTHREAD_MUTEX_UNLOCK(&pause_mutex) and the return.
ResumeUnlock(th) ==
  /\ PAt(th, "rs_unlock")
  /\ pause_mutex' = 0
  /\ PGoto(th, "out")
  /\ UNCHANGED <<pause_depth, pause_cond, nonpause>>

\* The steps of a thread inside one of the three functions.
PauseStep(th) ==
  \/ MayPauseCheck(th)
  \/ MayPauseLock(th)
  \/ MayPauseRecheck(th)
  \/ MayPauseWait(th)
  \/ MayPauseUnlock(th)
  \/ PauseWrite(th)
  \/ ResumeLock(th)
  \/ ResumeRead(th)
  \/ ResumeWrite(th)
  \/ ResumeTest(th)
  \/ ResumeUnlock(th)

PauseNext ==
  \/ \E th \in Tasks : MayPauseCall(th)
  \/ \E th \in Tasks : PauseRead(th)
  \/ \E th \in Tasks : ResumeCall(th)
  \/ \E th \in Tasks : PauseStep(th)

PauseSpec == WorkersInit /\ [][PauseNext]_vars

\* Every thread inside one of the three functions goes on running.
PauseLiveSpec == PauseSpec /\ \A th \in Tasks : WF_vars(PauseStep(th))

\* ---------------------------------------------------------- properties
Threads == Tasks

Pushing(th) == loc[th].pc \in {"ta_push", "nt_push"}

\* The thread is inside try-acquire or notify.
InArbiterCode(th) == loc[th].pc \notin {"idle", "rel", "rel_cs"}

\* C1: whenever try-acquire or notify is about to call _starpu_push_task(j),
\* job j holds a reference on every handle of its ordered buffer list.
C1_PushHoldsEveryHandle ==
  \A th \in Threads :
    Pushing(th) =>
      \A h \in HandlesOf(loc[th].j) :
        loc[th].j \in holder[h] /\ refcnt[h] >= 1

\* A push made by notify, of a job that had been parked.
C1_Witness ==
  \E th \in Threads :
    /\ loc[th].pc = "nt_push"
    /\ Cardinality(HandlesOf(loc[th].j)) = 2
    /\ \A h \in HandlesOf(loc[th].j) : loc[th].j \in holder[h]

\* C2: every submitted task is eventually pushed and terminated.
C2_EveryTaskDone ==
  \A t \in Tasks : submitted[t] ~> (pushed[t] >= 1 /\ done[t] >= 1)

\* C2, as a property of states: when no thread can take a step, no
\* submitted task is left that was not pushed and terminated.
C2_NoStuckTask ==
  (\A th \in Tasks : ~ENABLED ThreadStep(th)) =>
    \A t \in Tasks : submitted[t] => (pushed[t] >= 1 /\ done[t] >= 1)

\* C3: every handle has ref_count <= busy_count, in every state, the states
\* inside try-acquire, its rollback, the parking and notify included.
C3_RefLeBusy == \A h \in Handles : refcnt[h] <= busy_count[h]

\* C4: in the scenarios, with one arbiter for all the handles: once T1 has
\* terminated (each of its handles released and notified), T2 and T3, both
\* submitted and neither terminated nor terminating, are Ready together,
\* whatever the order of the submissions and of the releases.
C4_BothReady ==
  (/\ \A h \in Handles : arbiter[h] = 1
   /\ done[1] >= 1
   /\ \A t \in {2, 3} : submitted[t] /\ loc[t].pc = "idle" /\ done[t] = 0)
    => ready[2] >= 1 /\ ready[3] >= 1

\* T2 and T3 were parked behind T1, and are Ready together after it.
C4_Witness ==
  /\ \A h \in Handles : arbiter[h] = 1
  /\ ~parked[1] /\ parked[2] /\ parked[3]
  /\ done = <<1, 0, 0>>
  /\ ready[2] = 1 /\ ready[3] = 1

\* C5: when try-acquire has failed and is about to return with the task
\* parked, every handle it had fast-taken is back to refcnt 0 (the value that
\* let it be taken) and is no longer held by the job, and the job has a
\* requester on every handle of the arbiter, also after the one that failed.
C5_RollbackAndRecord ==
  \A th \in Threads :
    loc[th].pc = "ta_fail_unlock" =>
      LET l == loc[th]
      IN \A i \in l.nb_non_arbitered_buff..(STARPU_TASK_GET_NBUFFERS(l.j) - 1) :
           arbiter[ORDERED_BUFFER_HANDLE(l.j, i)] = l.arbiter =>
             /\ FirstOf(arbitered_req_list[ORDERED_BUFFER_HANDLE(l.j, i)], l.j, 1) # 0
             /\ (i < l.idx_buf_arbiter =>
                   /\ refcnt[ORDERED_BUFFER_HANDLE(l.j, i)] = 0
                   /\ l.j \notin holder[ORDERED_BUFFER_HANDLE(l.j, i)])

\* A failed attempt that had fast-taken a handle and failed on the next one.
C5_Witness ==
  \E th \in Threads :
    /\ loc[th].pc = "ta_fail_unlock"
    /\ loc[th].idx_buf_arbiter > loc[th].nb_non_arbitered_buff
    /\ busy_count[ORDERED_BUFFER_HANDLE(loc[th].j, loc[th].nb_non_arbitered_buff)] = 1

\* C6: a thread about to call _starpu_push_task holds no arbiter mutex and no
\* header_lock; a thread that holds a header_lock inside try-acquire or
\* notify holds the mutex of that handle's arbiter.
C6_LockOrder ==
  \A th \in Threads :
    /\ Pushing(th) =>
         /\ \A a \in Arbiters : mutex[a] # th
         /\ \A h \in Handles : header_lock[h] # th
    /\ \A h \in Handles :
         (header_lock[h] = th /\ InArbiterCode(th)) => mutex[arbiter[h]] = th

\* A thread holds a header_lock under the arbiter mutex while another thread
\* is about to push.
C6_Witness ==
  \E th \in Threads, t2 \in Threads, h \in Handles :
    /\ Pushing(th)
    /\ t2 # th /\ header_lock[h] = t2 /\ InArbiterCode(t2)

\* C7: no thread holds the header_lock of two handles at the same time.
C7_OneHeaderLock ==
  \A th \in Threads :
    Cardinality({h \in Handles : header_lock[h] = th}) <= 1

\* The rollback of try-acquire holds the header_lock of a handle it had taken.
C7_Witness ==
  \E th \in Threads :
    /\ loc[th].pc = "ta_cancel_cs"
    /\ header_lock[ORDERED_BUFFER_HANDLE(loc[th].j, loc[th].idx_buf_cancel)] = th

\* C8: notify examines the requesters of the released handle in the order
\* in which their tasks were parked on it: the requester it is examining at
\* position r of the list is the r-th oldest parked task of the handle.
C8_ScanInParkingOrder ==
  \A th \in Threads :
    (loc[th].pc \in {"nt_loop", "nt_take"}
       /\ loc[th].r <= Len(fifo[loc[th].handle])) =>
      loc[th].j = fifo[loc[th].handle][loc[th].r]

\* C9: one call of notify promotes at most one parked task.
C9_OnePromotionPerNotify ==
  \A th \in Threads : loc[th].promoted <= 1

\* Notify pushes the task it promoted while other requesters remain on the
\* list of the released handle.
C9_Witness ==
  \E th \in Threads :
    /\ loc[th].pc = "nt_push" /\ loc[th].promoted = 1
    /\ arbitered_req_list[loc[th].handle] # <<>>

\* C10: starpu_data_assign_arbiter fails its assertion, and changes nothing,
\* when the handle has an arbiter, a refcnt or a busy_count; hence in every
\* step the arbiter of a handle changes only from NULL.
C10_AssignOnlyOnce ==
  [][/\ \A h \in Handles :
          arbiter'[h] # arbiter[h] =>
            arbiter[h] = NULL /\ refcnt[h] = 0 /\ busy_count[h] = 0
     /\ \A c \in AssignCalls :
          (/\ starpu_data_assign_arbiter(c[1], c[2])
           /\ (arbiter[c[1]] # NULL \/ refcnt[c[1]] # 0 \/ busy_count[c[1]] # 0))
            => abort' # "" /\ arbiter' = arbiter]_vars

\* An arbiter was assigned to a handle that had one: the assertion failed and
\* the handle kept its arbiter.
C10_Witness ==
  /\ abort = "handle can only be assigned one arbiter"
  /\ \E h \in Handles : arbiter[h] = 2

\* The tasks whose ordered buffer list names handle h, and those whose list
\* is the single entry (h, m).
UsersOf(h) == {t \in Tasks : h \in HandlesOf(t)}

OnlyAccess(h, m) == {t \in Tasks : Shapes[shape[t]] = << Buf(h, m) >>}

\* C12: two tasks s and t write the same handle h, s submitted before t, no
\* other task on h. The submission of s returns with s pushed, never parked;
\* t holds h, or is pushed, only when s has been pushed and has released h;
\* and once s has terminated, t (its submission returned) has been pushed.
C12_WritersInSubmissionOrder ==
  \A h \in Handles : \A s \in Tasks : \A t \in Tasks :
    (s < t /\ UsersOf(h) = {s, t} /\ OnlyAccess(h, "W") = {s, t}) =>
      /\ (submitted[s] /\ loc[s].ctx # "submit") => pushed[s] >= 1 /\ ~parked[s]
      /\ (t \in holder[h] \/ pushed[t] >= 1) => pushed[s] >= 1 /\ s \notin holder[h]
      /\ (done[s] >= 1 /\ submitted[t] /\ loc[t].ctx # "submit") => pushed[t] >= 1

\* The second writer was parked and is Ready after the first has terminated.
C12_Witness ==
  \E h \in Handles : \E s \in Tasks : \E t \in Tasks :
    /\ s < t /\ UsersOf(h) = {s, t} /\ OnlyAccess(h, "W") = {s, t}
    /\ parked[t] /\ done[s] = 1 /\ ready[t] = 1

\* The functions being run by the worker of the arbiter.
LodRunning == {th \in Tasks : lod[th].pc = "lod_run"}

\* Lemma for C11: with LOCK_OR_DELEGATE the posted functions are run one at a
\* time, and the first loop of the worker never finds a node.
C11_OneAtATime ==
  /\ Cardinality(LodRunning) <= 1
  /\ \A th \in Tasks : lod[th].iter = <<>>
  /\ abort = ""

\* Lemma for C11: no posted function is run twice, and when the arbiter is
\* back to idle (working = 0, list lock free) every posted function has run.
C11_ExactlyOnce ==
  /\ twice = {} /\ executed \subseteq posted
  /\ (working = 0 /\ dlListLock = 0) =>
       (executed = posted /\ dlTaskListHead = <<>>)

\* C11: the handle and queue states reached with LOCK_OR_DELEGATE are those
\* reached with the arbiter mutex.  With the mutex and tasks submitted in
\* order, a task whose handles no earlier task names never waits in a
\* requester list; the formula states it of the delegating arbiter.
C11_FirstUserNeverQueued ==
  \A t \in Tasks :
    (\A s \in Tasks : s < t => HandlesOf(s) \cap HandlesOf(t) = {}) =>
      \A h \in Handles : FirstOf(arbitered_req_list[h], t, 1) = 0

\* The tasks whose call to the dispatcher or to the arbiter has returned.
Returned2(t) == submitted[t] /\ walk[t] # "submit"

\* C14: with T1 (h: R), T2 (h: W), T3 (h: R) submitted in this order on a
\* non-arbitered handle, T1 is Ready at once, T2 is Ready only after T1 is
\* done and as soon as it is, and T3 is Ready only after T2 is done and as
\* soon as it is: T3 never joins the running reader T1.
C14_WriterBreaksReaders ==
  (shape = << ReadShape, 1, ReadShape >> /\ arbiter[1] = NULL) =>
    /\ Returned2(1) => pushed[1] >= 1 /\ ~parked[1]
    /\ pushed[2] >= 1 => done[1] >= 1
    /\ pushed[3] >= 1 => done[2] >= 1
    /\ (Returned2(2) /\ done[1] >= 1) => pushed[2] >= 1
    /\ (Returned2(3) /\ done[2] >= 1) => pushed[3] >= 1

C14_Witness ==
  /\ shape = << ReadShape, 1, ReadShape >> /\ arbiter[1] = NULL
  /\ holder[1] = {1} /\ Len(queue[1]) = 2
  /\ queue[1][1].j = 2 /\ queue[1][2].j = 3

\* The tasks that access handle 1 with the COMMUTE flag, and the others that
\* access it.
Commuters == {t \in Tasks : shape[t] = CommuteShape}
NonCommuters == {t \in Tasks : 1 \in HandlesOf(t)} \ Commuters

\* C15: COMMUTE accesses of a handle with no other access before them are
\* all Ready at submission, whatever the completions so far, and a
\* non-COMMUTE access is Ready only after every COMMUTE access submitted
\* before it is done.
C15_CommuteCohort ==
  /\ \A t \in Commuters :
       (Returned2(t) /\ \A s \in NonCommuters : t < s) =>
         pushed[t] >= 1 /\ ~parked[t]
  /\ \A t \in NonCommuters : \A s \in Commuters :
       (s < t /\ pushed[t] >= 1) => done[s] >= 1

C15_Witness ==
  /\ shape = << CommuteShape, CommuteShape, 1 >>
  /\ done[2] = 1 /\ holder[1] = {1} /\ current_mode[1] = "WC"
  /\ Len(queue[1]) = 1 /\ queue[1][1].j = 3

ReadOnlyHandles ==
  {h \in Handles :
     Cardinality(UsersOf(h)) >= 2 /\ OnlyAccess(h, "R") = UsersOf(h)}

\* C13, as stated: the tasks that only read the same handle are all Ready
\* before any of them is done: none of them waits in a requester list.
C13_ReadersNeverWait ==
  \A h \in ReadOnlyHandles : \A t \in UsersOf(h) :
    FirstOf(arbitered_req_list[h], t, 1) = 0

\* C13, amended: on an arbitered handle the tasks that only read it hold it
\* one at a time: refcnt never exceeds 1 and a Ready one is the only holder.
C13_ReadersOneAtATime ==
  \A h \in ReadOnlyHandles :
    arbiter[h] # NULL =>
      /\ refcnt[h] <= 1 /\ Cardinality(holder[h]) <= 1
      /\ \A t \in UsersOf(h) : ready[t] >= 1 => holder[h] = {t}

C13_Witness ==
  /\ 1 \in ReadOnlyHandles /\ UsersOf(1) = Tasks /\ arbiter[1] # NULL
  /\ holder[1] = {1} /\ current_mode[1] = "R" /\ ready[1] = 1
  /\ Len(arbitered_req_list[1]) = 2
  /\ \A p \in 1..2 : arbitered_req_list[1][p].mode = "R"

\* Lemma for C13: on a non-arbitered handle the readers never wait, and
\* refcnt reaches their number.
C13_DispatchedReadersNeverWait ==
  \A h \in ReadOnlyHandles : \A t \in UsersOf(h) :
    arbiter[h] = NULL => (~parked[t] /\ FirstOf(queue[h], t, 1) = 0)

C13_DispatchedReadersTogether ==
  /\ shape = [t \in Tasks |-> ReadShape] /\ arbiter[1] = NULL
  /\ refcnt[1] = 3 /\ holder[1] = Tasks /\ \A t \in Tasks : done[t] = 0

\* The mode a holder requested for the handle: the mode of the first entry
\* of the task for it, and R for the application that acquired the handle.
ModeOf(t, h) ==
  IF t = 0 THEN "R"
  ELSE ORDERED_BUFFER_MODE(t,
         CHOOSE i \in 0..(STARPU_TASK_GET_NBUFFERS(t) - 1) :
           /\ ORDERED_BUFFER_HANDLE(t, i) = h
           /\ \A k \in 0..(i - 1) : ORDERED_BUFFER_HANDLE(t, k) # h)

\* C16: for every handle with refcnt > 0 the mode of each holder is
\* current_mode or compatible with it, and for a handle of an arbiter
\* current_mode is the mode the holding task requested for it.
C16_HolderModes ==
  \A h \in Handles : refcnt[h] > 0 =>
    \A t \in holder[h] :
      /\ ModeOf(t, h) = current_mode[h] \/ Compatible(ModeOf(t, h), current_mode[h])
      /\ arbiter[h] # NULL => current_mode[h] = ModeOf(t, h)

\* A reader promoted by the notify holds a handle that a writer held before.
C16_Witness ==
  \E h \in Handles : \E t \in Tasks : \E s \in Tasks :
    /\ arbiter[h] # NULL /\ refcnt[h] = 1 /\ holder[h] = {t}
    /\ parked[t] /\ pushed[t] = 1 /\ ModeOf(t, h) = "R"
    /\ s < t /\ h \in HandlesOf(s) /\ ModeOf(s, h) = "W" /\ done[s] = 1

\* The thread executes the initialization body, from initialized = CHANGING
\* to the critical section that ends it.
InInitBody(th) ==
  \/ wloc[th].pc \in {"i_body", "i_topology", "i_fail", "i_ok"}
  \/ wloc[th].pc = "lock" /\ wloc[th].next \in {"i_fail", "i_ok"}

\* The thread executes the teardown body of starpu_shutdown.
InTeardown(th) ==
  \/ wloc[th].pc \in {"s_body", "s_done"}
  \/ wloc[th].pc = "lock" /\ wloc[th].next = "s_done"

\* C18: while fewer starpu_shutdown calls have decremented init_count than
\* starpu_initialize calls have succeeded, _starpu_is_initialized() is true
\* and no thread is in the teardown.
C18_NoEarlyTeardown ==
  tally.decremented < tally.ok =>
    /\ _starpu_is_initialized
    /\ \A th \in Tasks : ~InTeardown(th)

C18_Witness ==
  /\ tally.ok = 3 /\ tally.decremented = 2 /\ init_count = 1
  /\ \A th \in Tasks : wloc[th].pc = "out"

\* C19: more calls to starpu_shutdown than to starpu_initialize end in the
\* assertion; otherwise init_count is never negative and is the number of
\* starpu_initialize calls that have not failed minus the number of
\* starpu_shutdown calls.
C19_InitCount ==
  /\ tally.decremented > tally.counted => abort # ""
  /\ abort = "" =>
       /\ init_count >= 0
       /\ init_count = tally.counted - tally.failed - tally.decremented

\* C20: when each thread shuts down only after its own initialization
\* returned 0, at most one thread at a time is in the initialization body or
\* in the teardown body, only while initialized is CHANGING, and
\* starpu_initialize returns 0 only when initialized is INITIALIZED.
C20_SingleOwner ==
  /\ Cardinality({th \in Tasks : InInitBody(th) \/ InTeardown(th)}) <= 1
  /\ \A th \in Tasks :
       /\ (InInitBody(th) \/ InTeardown(th)) => initialized = "CHANGING"
       /\ wloc[th].pc = "i_ret" => initialized = "INITIALIZED"

C20_Witness ==
  \E a \in Tasks : \E b \in Tasks :
    /\ InTeardown(a) /\ wloc[b].pc = "wait" /\ tally.ok = 2 /\ init_count = 0

\* C21: an arbitered handle has refcnt 0 or 1, so that at most one task holds
\* it whatever the access modes, and none of the three refcnt == 1 assertions
\* (rollback of the submission, promotion and rollback of the notification)
\* fails.
C21_RefcntZeroOrOne ==
  /\ \A h \in Handles :
       arbiter[h] # NULL => refcnt[h] \in {0, 1} /\ Cardinality(holder[h]) <= 1
  /\ abort \notin {"cancel_handle->refcnt == 1", "handle_arbiter->refcnt == 1"}

\* A notification has passed the assertions of the promotion on a handle that
\* another task still waits for.
C21_Witness ==
  \E th \in Threads, h \in Handles :
    /\ abort = "" /\ loc[th].pc = "nt_promoted"
    /\ h \in HandlesOf(loc[th].j)
    /\ arbiter[h] # NULL /\ refcnt[h] = 1 /\ holder[h] = {loc[th].j}
    /\ arbitered_req_list[h] # <<>>

\* The arbiters of the handles on which task t has a requester: for a parked
\* task, the arbiter group it waits for.
WaitGroup(t) ==
  {arbiter[h] : h \in {g \in Handles :
                         FirstOf(arbitered_req_list[g], t, 1) # 0}}

\* Task t is parked: recorded on its handles and not promoted yet.
Parked(t) == submitted[t] /\ parked[t] /\ pushed[t] = 0 /\ WaitGroup(t) # {}

\* C22: no wake-up is lost: when no thread is inside try-acquire or notify,
\* so that every release made so far has been followed by its notify, no
\* parked task has all its handles of the arbiter group it waits for free.
C22_NoLostWakeup ==
  (abort = "" /\ \A th \in Threads : ~InArbiterCode(th)) =>
    \A t \in Tasks :
      Parked(t) =>
        \E h \in HandlesOf(t) : arbiter[h] \in WaitGroup(t) /\ refcnt[h] # 0

\* A task parked on two handles stays parked after the release of the first
\* one and its notify, the second handle being still held.
C22_Witness ==
  /\ abort = "" /\ \A th \in Threads : ~InArbiterCode(th)
  /\ \E t \in Tasks, u \in Tasks :
       /\ t # u /\ Parked(t) /\ Cardinality(HandlesOf(t)) = 2
       /\ loc[u].pc = "rel" /\ HandlesOf(u) = HandlesOf(t)
       /\ \E h \in HandlesOf(t) : refcnt[h] = 0 /\ torel[u] = HandlesOf(t) \ {h}

\* C23: each submitted task is pushed to the scheduler at most once: after its
\* promotion no later notify takes handles for it and pushes it again.
C23_PushedAtMostOnce == \A t \in Tasks : pushed[t] <= 1

\* The number of requesters of task t in the requester list of handle h.
RequestersOf(t, h) ==
  Cardinality({p \in 1..Len(arbitered_req_list[h]) :
                 arbitered_req_list[h][p].j = t})

\* C24: a parked task has exactly one requester on each distinct handle of
\* the arbiter group it waits for, and a promoted task has no requester left
\* on any handle, also when its buffer list names a handle twice.
C24_OneRequesterPerHandle ==
  \A t \in Tasks, h \in Handles :
    /\ (Parked(t) /\ \A th \in Threads : loc[th].j # t) =>
         RequestersOf(t, h) =
           IF h \in HandlesOf(t) /\ arbiter[h] \in WaitGroup(t) THEN 1 ELSE 0
    /\ pushed[t] >= 1 => RequestersOf(t, h) = 0

\* Task t counts in the busy_count of handle h: it holds h, or it is recorded
\* in the requester list of h.
InFlight(t, h) == t \in holder[h] \/ RequestersOf(t, h) >= 1

\* C25: busy_count is incremented once per distinct handle per task and
\* decremented by the release, and refcnt follows the takes and the releases:
\* outside try-acquire and notify, busy_count of an arbitered handle is the
\* number of tasks that hold it or wait for it, and refcnt the number of its
\* holders; both are back to 0 when every submitted task has completed.
C25_CountsBalanced ==
  (abort = "" /\ \A th \in Threads : ~InArbiterCode(th)) =>
    \A h \in Handles :
      arbiter[h] # NULL =>
        /\ busy_count[h] = Cardinality({t \in Tasks : InFlight(t, h)})
        /\ refcnt[h] = Cardinality(holder[h] \cap Tasks)

\* The places of notify inside one attempt to take the handles of a parked
\* job, up to the end of its rollback.
AttemptPcs == {"nt_loop", "nt_take", "nt_cancel", "nt_cancel_cs"}

\* The handles that the attempt at l has taken and not given back: the
\* buffers before idx_buf_arbiter while it takes, those from idx_buf_cancel
\* to idx_buf_arbiter while it rolls back.
Outstanding(l) ==
  IF l.pc \notin AttemptPcs THEN {}
  ELSE LET first == IF l.all_arbiter_available = 1
                    THEN l.nb_non_arbitered_buff ELSE l.idx_buf_cancel
       IN {ORDERED_BUFFER_HANDLE(l.j, i) : i \in first..(l.idx_buf_arbiter - 1)}

\* C26: an attempt of notify that finds a handle busy leaves refcnt,
\* busy_count and the requester list of every handle as they were: each of
\* its steps leaves busy_count and the lists alone and changes refcnt by the
\* change of the set of handles it has taken, which is empty when the attempt
\* starts and when its rollback ends; the scan then goes on with the next
\* requester of the released handle.
C26_FailedAttemptFrame ==
  [][\A th \in Threads :
       LET l == loc[th]
           m == loc'[th]
           list == arbitered_req_list[l.handle]
       IN (/\ abort' = "" /\ l.pc \in AttemptPcs /\ m # l
           /\ m.pc \in AttemptPcs \cup {"nt_unlock"}) =>
            /\ busy_count' = busy_count
            /\ arbitered_req_list' = arbitered_req_list
            /\ \A h \in Handles :
                 refcnt'[h] - refcnt[h] =
                   (IF h \in Outstanding(m) THEN 1 ELSE 0)
                   - (IF h \in Outstanding(l) THEN 1 ELSE 0)
            /\ m.r # l.r =>
                 /\ Outstanding(m) = {} /\ m.handle = l.handle
                 /\ IF l.r < Len(list)
                    THEN m.r = l.r + 1 /\ m.j = list[l.r + 1].j
                         /\ m.pc = "nt_loop"
                    ELSE m.pc = "nt_unlock"]_vars

\* The first requester of the released handle is still parked after a failed
\* attempt that had taken a handle, and the scan is at the second requester.
C26_Witness ==
  \E th \in Threads :
    LET l == loc[th]
    IN /\ abort = "" /\ l.pc = "nt_loop" /\ l.r = 2
       /\ LET t == arbitered_req_list[l.handle][1].j
          IN /\ Parked(t) /\ Cardinality(HandlesOf(t)) = 2
             /\ ORDERED_BUFFER_HANDLE(t, 0) = l.handle
             /\ \A h \in HandlesOf(t) : t \notin holder[h]
             /\ refcnt[l.handle] = 0

\* The buffer indexes of task t whose handle carries a requester of t.
RecordedAt(t) ==
  {i \in 0..(STARPU_TASK_GET_NBUFFERS(t) - 1) :
     RequestersOf(t, ORDERED_BUFFER_HANDLE(t, i)) >= 1}

\* The first buffer index of the arbiter group on which task t is parked.
GroupStart(t) == CHOOSE i \in RecordedAt(t) : \A k \in RecordedAt(t) : i <= k

\* The buffer indexes of the arbiter group that starts at index b: the run of
\* buffers from b whose handles have the arbiter of the handle at b.
GroupAt(t, b) ==
  {i \in b..(STARPU_TASK_GET_NBUFFERS(t) - 1) :
     \A k \in b..i : arbiter[ORDERED_BUFFER_HANDLE(t, k)]
                       = arbiter[ORDERED_BUFFER_HANDLE(t, b)]}

\* C27: a task that spans several arbiter groups acquires them one at a time
\* in the order of its buffers: while it is parked on a group it holds every
\* handle of the earlier groups and no handle of that group or of a later
\* one, and has requesters on the handles of that group only; and a task is
\* Ready only when it holds the handles of all its groups.
C27_GroupsInOrder ==
  \A t \in Tasks :
    /\ (Parked(t) /\ \A th \in Threads : loc[th].j # t) =>
         LET b == GroupStart(t)
         IN /\ \A i \in 0..(b - 1) : t \in holder[ORDERED_BUFFER_HANDLE(t, i)]
            /\ \A i \in b..(STARPU_TASK_GET_NBUFFERS(t) - 1) :
                 t \notin holder[ORDERED_BUFFER_HANDLE(t, i)]
            /\ RecordedAt(t) = GroupAt(t, b)
            /\ \A h \in Handles \ HandlesOf(t) : RequestersOf(t, h) = 0
    /\ (pushed[t] = 1 /\ ready[t] >= 1) =>
         \A h \in HandlesOf(t) : t \in holder[h]

\* A task with two handles on two arbiters is parked on its second group and
\* holds the handle of the first.
C27_Witness ==
  \E t \in Tasks :
    /\ abort = "" /\ Parked(t) /\ \A th \in Threads : loc[th].j # t
    /\ STARPU_TASK_GET_NBUFFERS(t) = 2 /\ GroupStart(t) = 1
    /\ arbiter[ORDERED_BUFFER_HANDLE(t, 0)] # arbiter[ORDERED_BUFFER_HANDLE(t, 1)]
    /\ refcnt[ORDERED_BUFFER_HANDLE(t, 0)] = 1

\* C28: a starpu_initialize that fails leaves initialized UNINITIALIZED and
\* init_count as it was before the call: when no thread is inside
\* starpu_initialize or starpu_shutdown, initialized is not CHANGING, so that
\* a later call does not wait, and init_count is the number of successful
\* initializations not shut down yet.
C28_FailedInitUndone ==
  (abort = "" /\ \A th \in Tasks : wloc[th].pc = "out") =>
    /\ initialized # "CHANGING"
    /\ init_count = owed[1] + owed[2] + owed[3]

\* C29: a thread that waits in starpu_initialize while another thread
\* initializes or shuts down eventually returns from starpu_initialize.
C29_WaitersReturn ==
  \A th \in Tasks : (wloc[th].pc = "wait") ~> (wloc[th].pc = "out")

\* The thread waits on pause_cond inside _starpu_may_pause.
Paused(w) == ploc[w].pc = "mp_wait"

InPauseOrResume(th) ==
  ploc[th].pc \in {"pa_write", "rs_lock", "rs_read", "rs_write", "rs_test",
                   "rs_unlock"}

\* C31: under any interleaving of starpu_pause and starpu_resume calls made
\* by several threads no increment is lost: when no call is in progress,
\* pause_depth is the number of completed starpu_pause calls minus the number
\* of completed starpu_resume calls, so that no worker stays paused once every
\* pause has been matched by a resume.
C31_DepthCountsPauses ==
  (abort = "" /\ \A th \in Tasks : ~InPauseOrResume(th)) =>
    /\ pause_depth = ploc[1].paused + ploc[2].paused + ploc[3].paused
    /\ pause_depth = 0 => \A w \in Tasks : ~Paused(w)

\* C32: a worker that waited in _starpu_may_pause goes on only at a moment
\* when pause_depth is 0: when it has locked pause_mutex again after the
\* wake-up and leaves the function, the workers are not paused.
C32_LeavesOnlyUnpaused ==
  [][\A w \in Tasks :
       (ploc[w].pc = "mp_relock" /\ ploc'[w].pc = "mp_unlock") =>
         pause_depth = 0]_vars

\* ------------------------------------------------- _starpu_launch_drivers
\* The thread of starpu_initialize launches the drivers and waits for them;
\* the threads it creates report their initialization at their own pace.
\* "Is <d> in conf->not_launched_drivers ?": an entry of another type is
\* skipped, an entry of the same type with the same id answers 0.
_starpu_may_launch_driver(conf, d) ==
  IF conf.not_launched_drivers = {}
    THEN 1
    ELSE IF \E n \in conf.not_launched_drivers : d.type = n.type /\ d.id = n.id
           THEN 0
           ELSE 1

\* The variables that _starpu_launch_drivers and the worker threads leave
\* alone, pause_depth apart.
nonlaunch == <<hvars, tvars, loc, torel, gvars, abort, lvars, dvars, init_mutex,
               init_cond, init_count, initialized, wloc, tally, owed,
               pause_mutex, pause_cond, ploc, we, lat, lth>>

\* _starpu_launch_drivers is entered on a machine the topology has described
\* (_starpu_worker_init: worker_is_initialized = 0, run_by_starpu = 1) with
\* the conf of the application: "pconfig->pause_depth = 0".
LaunchDriversCall ==
  /\ abort = ""
  /\ ld.pc = "out"
  /\ \E m \in Machines, n \in SUBSET Drivers :
       pconfig' = [workers |-> m, not_launched_drivers |-> n]
  /\ pause_depth' = 0
  /\ ld' = [pc |-> "launch", worker |-> 0]
  /\ UNCHANGED <<run_by_starpu, worker_is_initialized, set_is_initialized,
                 worker_thread, nonlaunch>>

\* "Launch workers asynchronously": one turn of the first loop.  A CPU worker
\* gets a thread unless the application keeps its driver; a CUDA worker that
\* is not the first of its set gets none; the first of a set resets
\* set_is_initialized and gets the thread of the set unless the application
\* keeps the driver.
LaunchWorker ==
  /\ abort = ""
  /\ ld.pc = "launch"
  /\ ld.worker < nworkers
  /\ LET worker == ld.worker
         workerarg == pconfig.workers[worker]
         driver == [type |-> workerarg.arch, id |-> workerarg.devid]
         first == workerarg.arch = "STARPU_CPU_WORKER" \/ workerarg.set = worker
         may == _starpu_may_launch_driver(pconfig, driver) = 1
     IN  /\ set_is_initialized' =
              IF workerarg.arch = "STARPU_CUDA_WORKER" /\ first
                THEN [set_is_initialized EXCEPT ![worker] = 0]
                ELSE set_is_initialized
         /\ run_by_starpu' =
              IF first /\ ~may
                THEN [run_by_starpu EXCEPT ![worker] = 0]
                ELSE run_by_starpu
         /\ worker_thread' =
              IF first /\ may
                THEN [worker_thread EXCEPT ![worker] = "created"]
                ELSE worker_thread
  /\ ld' = [ld EXCEPT !.worker = @ + 1]
  /\ UNCHANGED <<pconfig, worker_is_initialized, pause_depth, nonlaunch>>

\* "worker < nworkers" fails: the second loop starts at worker 0.
LaunchDone ==
  /\ abort = ""
  /\ ld.pc = "launch"
  /\ ld.worker = nworkers
  /\ ld' = [pc |-> "wait", worker |-> 0]
  /\ UNCHANGED <<pconfig, run_by_starpu, worker_is_initialized,
                 set_is_initialized, worker_thread, pause_depth, nonlaunch>>

\* "if (!workerarg->run_by_starpu) break;": the second loop ends at the first
\* worker whose driver is left to the application.
WaitBreak ==
  /\ abort = ""
  /\ ld.pc = "wait"
  /\ ld.worker < nworkers
  /\ run_by_starpu[ld.worker] = 0
  /\ ld' = [ld EXCEPT !.pc = "returned"]
  /\ UNCHANGED <<pconfig, run_by_starpu, worker_is_initialized,
                 set_is_initialized, worker_thread, pause_depth, nonlaunch>>

\* "while (!worker_set->set_is_initialized) COND_WAIT(&worker_set->ready_cond,
\* &worker_set->mutex)" for a CUDA worker, "while
\* (!workerarg->worker_is_initialized) COND_WAIT(&workerarg->ready_cond,
\* &workerarg->mutex)" for a CPU worker: the turn ends once the flag is set.
WaitWorker ==
  /\ abort = ""
  /\ ld.pc = "wait"
  /\ ld.worker < nworkers
  /\ run_by_starpu[ld.worker] # 0
  /\ LET workerarg == pconfig.workers[ld.worker]
     IN  IF workerarg.arch = "STARPU_CUDA_WORKER"
           THEN set_is_initialized[workerarg.set] # 0
           ELSE worker_is_initialized[ld.worker] # 0
  /\ ld' = [ld EXCEPT !.worker = @ + 1]
  /\ UNCHANGED <<pconfig, run_by_starpu, worker_is_initialized,
                 set_is_initialized, worker_thread, pause_depth, nonlaunch>>

\* "worker < nworkers" fails in the second loop: _starpu_launch_drivers
\* returns.
WaitDone ==
  /\ abort = ""
  /\ ld.pc = "wait"
  /\ ld.worker = nworkers
  /\ ld' = [ld EXCEPT !.pc = "returned"]
  /\ UNCHANGED <<pconfig, run_by_starpu, worker_is_initialized,
                 set_is_initialized, worker_thread, pause_depth, nonlaunch>>

\* The workers that the thread created for worker w drives: the worker
\* itself, or the workers of its set.
DrivenBy(w) ==
  {v \in Workers :
     \/ v = w
     \/ /\ pconfig.workers[w].arch = "STARPU_CUDA_WORKER"
        /\ pconfig.workers[v].arch = "STARPU_CUDA_WORKER"
        /\ pconfig.workers[v].set = w}

\* The thread created for a worker reports its initialization: it sets
\* worker_is_initialized of the workers it drives, and set_is_initialized of
\* a worker set.
WorkerReports(w) ==
  /\ abort = ""
  /\ worker_thread[w] = "created"
  /\ worker_thread' = [worker_thread EXCEPT ![w] = "initialized"]
  /\ worker_is_initialized' =
       [v \in Workers |-> IF v \in DrivenBy(w) THEN 1 ELSE worker_is_initialized[v]]
  /\ set_is_initialized' =
       IF pconfig.workers[w].arch = "STARPU_CUDA_WORKER"
         THEN [set_is_initialized EXCEPT ![w] = 1]
         ELSE set_is_initialized
  /\ UNCHANGED <<pconfig, run_by_starpu, ld, pause_depth, nonlaunch>>

LaunchStep ==
  \/ LaunchWorker
  \/ LaunchDone
  \/ WaitBreak
  \/ WaitWorker
  \/ WaitDone
  \/ \E w \in Workers : WorkerReports(w)

LaunchNext ==
  \/ LaunchDriversCall
  \/ LaunchStep

LaunchSpec == WorkersInit /\ [][LaunchNext]_vars

\* The thread created for worker w drives worker v.
Launched(v) ==
  \E w \in Workers : worker_thread[w] # "none" /\ v \in DrivenBy(w)

\* Worker v has reported its initialization.
Reported(v) ==
  IF pconfig.workers[v].arch = "STARPU_CUDA_WORKER"
    THEN set_is_initialized[pconfig.workers[v].set] # 0
    ELSE worker_is_initialized[v] # 0

\* C33: _starpu_launch_drivers has returned only if every worker launched by
\* StarPU has reported its initialization, the workers of higher index than
\* a worker left to the application included.
C33_ReturnsAfterAllReported ==
  ld.pc = "returned" => \A v \in Workers : Launched(v) => Reported(v)

\* ------------------------------------------------- _starpu_worker_exists
\* The functions are computed on a task, a machine and its scheduling
\* contexts that the caller chose.
STARPU_MAXIMPLEMENTATIONS == 2
nctxworkers == 2

Impls == 0 .. STARPU_MAXIMPLEMENTATIONS - 1
CtxWorkers == 0 .. nctxworkers - 1
Archs == {"STARPU_CPU_WORKER", "STARPU_CUDA_WORKER"}

\* The codelets: where (the empty set is STARPU_NOWHERE), the implementations
\* with a function for each architecture (cpu_funcs[impl], cuda_funcs[impl]
\* not NULL), and the can_execute callback, NULL or a function of the worker
\* and the implementation.
Callbacks ==
  {[defined |-> FALSE, ret |-> [p \in CtxWorkers \X Impls |-> 0]]} \cup
  [defined : {TRUE}, ret : [CtxWorkers \X Impls -> {0, 1}]]

Codelets ==
  [where : SUBSET Archs, funcs : [Archs -> SUBSET Impls],
   can_execute : Callbacks]

\* The machines: the type of each worker, check_entire_platform, and the
\* workers of each scheduling context in the order of its iterator; context
\* 0 is the initial context with every worker.
TheMachines ==
  {[types |-> ty, check_entire_platform |-> cep,
    sched_ctx |-> <<[workers |-> CtxWorkers], [workers |-> ws]>>] :
     ty \in [CtxWorkers -> Archs], cep \in {0, 1}, ws \in SUBSET CtxWorkers}

\* _starpu_config.worker_mask: the architectures with a worker.
worker_mask(machine) == {machine.types[i] : i \in CtxWorkers}

starpu_worker_get_type(machine, i) == machine.types[i]

\* "for (impl = 0; impl < STARPU_MAXIMPLEMENTATIONS; impl++)" for worker i,
\* from impl on: the value returned from inside the loop, or -1 when the
\* loop ends without returning.
RECURSIVE ImplLoop(_, _, _, _)
ImplLoop(task, arch, i, impl) ==
  IF impl >= STARPU_MAXIMPLEMENTATIONS
    THEN -1
    ELSE LET test_implementation == impl \in task.cl.funcs[arch]
         IN  IF ~test_implementation
               THEN ImplLoop(task, arch, i, impl + 1)
               ELSE IF task.cl.can_execute.defined
                      THEN task.cl.can_execute.ret[<<i, impl>>]
                      ELSE 1

\* "while(workers->has_next(workers, &it))" over the workers not yet
\* visited, in increasing order: "return 0" when none is left.
RECURSIVE WorkerLoop(_, _, _, _)
WorkerLoop(machine, task, arch, left) ==
  IF left = {}
    THEN 0
    ELSE LET i == CHOOSE x \in left : \A y \in left : x <= y
             r == ImplLoop(task, arch, i, 0)
         IN  IF starpu_worker_get_type(machine, i) # arch \/ r = -1
               THEN WorkerLoop(machine, task, arch, left \ {i})
               ELSE r

_starpu_worker_exists_and_can_execute(machine, task, arch) ==
  LET sched_ctx == IF machine.check_entire_platform = 1
                     THEN machine.sched_ctx[1]
                     ELSE machine.sched_ctx[task.sched_ctx + 1]
  IN  WorkerLoop(machine, task, arch, sched_ctx.workers)

\* The tests of _starpu_worker_exists, one architecture after the other.
_starpu_worker_exists(machine, task) ==
  IF task.cl.where = {}
    THEN 1
    ELSE IF task.sched_ctx = 0 /\ task.cl.where \cap worker_mask(machine) = {}
      THEN 0
    ELSE IF task.sched_ctx = 0 /\ ~task.cl.can_execute.defined
      THEN 1
    ELSE IF /\ "STARPU_CPU_WORKER" \in task.cl.where
            /\ _starpu_worker_exists_and_can_execute(machine, task,
                 "STARPU_CPU_WORKER") # 0
      THEN 1
    ELSE IF /\ "STARPU_CUDA_WORKER" \in task.cl.where
            /\ _starpu_worker_exists_and_can_execute(machine, task,
                 "STARPU_CUDA_WORKER") # 0
      THEN 1
    ELSE 0

\* The variables that the two functions leave alone.
nonexists == <<hvars, tvars, loc, torel, gvars, abort, lvars, dvars, init_mutex,
               init_cond, init_count, initialized, wloc, tally, owed, pvars,
               lnvars, lat, lth>>

\* A call of _starpu_worker_exists_and_can_execute(task, arch).
ExistsAndCanExecuteCall ==
  /\ abort = ""
  /\ we.pc = "out"
  /\ \E machine \in TheMachines, cl \in Codelets, ctx \in {0, 1}, arch \in Archs :
       LET task == [cl |-> cl, sched_ctx |-> ctx]
       IN  we' = [pc |-> "returned", fn |-> "exists_and_can_execute",
                  machine |-> machine, task |-> task, arch |-> arch,
                  ret |-> _starpu_worker_exists_and_can_execute(machine, task,
                                                                arch)]
  /\ UNCHANGED nonexists

\* A call of _starpu_worker_exists(task).
WorkerExistsCall ==
  /\ abort = ""
  /\ we.pc = "out"
  /\ \E machine \in TheMachines, cl \in Codelets, ctx \in {0, 1} :
       LET task == [cl |-> cl, sched_ctx |-> ctx]
       IN  we' = [pc |-> "returned", fn |-> "exists", machine |-> machine,
                  task |-> task, arch |-> "none",
                  ret |-> _starpu_worker_exists(machine, task)]
  /\ UNCHANGED nonexists

\* The caller has read the value.
ExistsReturn ==
  /\ abort = ""
  /\ we.pc = "returned"
  /\ we' = [pc |-> "out"]
  /\ UNCHANGED nonexists

ExistsNext ==
  \/ ExistsAndCanExecuteCall
  \/ WorkerExistsCall
  \/ ExistsReturn

ExistsSpec == WorkersInit /\ [][ExistsNext]_vars

\* Some worker of the type in the scheduling context and some implementation
\* with a function for the architecture are accepted by can_execute, or
\* exist while the codelet has no can_execute.
SomeAccepted(machine, task, arch) ==
  LET sched_ctx == IF machine.check_entire_platform = 1
                     THEN machine.sched_ctx[1]
                     ELSE machine.sched_ctx[task.sched_ctx + 1]
  IN  \E i \in sched_ctx.workers, impl \in Impls :
        /\ machine.types[i] = arch
        /\ impl \in task.cl.funcs[arch]
        /\ \/ ~task.cl.can_execute.defined
           \/ task.cl.can_execute.ret[<<i, impl>>] # 0

\* C34: _starpu_worker_exists_and_can_execute returns non-zero if and only
\* if some worker of the type in the scheduling context and some
\* implementation with a function for the architecture are accepted by the
\* can_execute callback, or the codelet has no such callback.
C34_NonZeroIffSomeAccepted ==
  (we.pc = "returned" /\ we.fn = "exists_and_can_execute") =>
    (we.ret # 0 <=> SomeAccepted(we.machine, we.task, we.arch))

\* ------------------------------------------------- cuda-latency.c
\* main creates the two GPU threads, lets them go and waits for the end of
\* the ping-pong.  A thread that waits on a condition is in its set of
\* waiters until a signal, a broadcast or a spurious wake-up takes it out;
\* it then locks the mutex again and tests its condition again.
MaxIter == 2

\* The variables that cuda-latency.c leaves alone.
nonlatency == <<hvars, tvars, loc, torel, gvars, abort, lvars, dvars,
                init_mutex, init_cond, init_count, initialized, wloc, tally,
                owed, pvars, lnvars, we>>

LAt(th, p) == abort = "" /\ lth[th].pc = p

\* pthread_cond_signal: the sets of waiters that may remain, one waiter
\* less if there is any.
Signal(waiters) ==
  IF waiters = {} THEN {{}} ELSE {waiters \ {w} : w \in waiters}

\* The places where a thread locks a mutex: pthread_mutex_lock, or the end of
\* a pthread_cond_wait once the thread is no longer among the waiters.
LockPoints ==
  {[from |-> "m_lock", to |-> "m_test", m |-> "mutex", c |-> "none"],
   [from |-> "m_wait", to |-> "m_test", m |-> "mutex", c |-> "cond"],
   [from |-> "go_lock", to |-> "go", m |-> "mutex", c |-> "none"],
   [from |-> "mw_lock", to |-> "mw_test", m |-> "mutex", c |-> "none"],
   [from |-> "mw_wait", to |-> "mw_test", m |-> "mutex", c |-> "cond_go"],
   [from |-> "lg_lock", to |-> "lg_init", m |-> "mutex", c |-> "none"],
   [from |-> "lg_wait", to |-> "lg_test", m |-> "mutex", c |-> "cond_go"],
   [from |-> "fin_lock", to |-> "fin", m |-> "mutex", c |-> "none"],
   [from |-> "sd_lock", to |-> "sd", m |-> "mutex_gpu", c |-> "none"],
   [from |-> "rd_lock", to |-> "rd_test", m |-> "mutex_gpu", c |-> "none"],
   [from |-> "rd_wait", to |-> "rd_test", m |-> "mutex_gpu", c |-> "cond_gpu"]}

LatLock(th) ==
  \E p \in LockPoints :
    /\ LAt(th, p.from)
    /\ IF p.c = "none" THEN TRUE ELSE th \notin lat[p.c]
    /\ lat[p.m] = NoThread
    /\ lat' = [lat EXCEPT ![p.m] = th]
    /\ lth' = [lth EXCEPT ![th].pc = p.to]
    /\ UNCHANGED nonlatency

\* A thread returns from pthread_cond_wait without a signal.
SpuriousWake(th) ==
  /\ abort = ""
  /\ \E c \in {"cond", "cond_go", "cond_gpu"} :
       /\ th \in lat[c]
       /\ lat' = [lat EXCEPT ![c] = @ \ {th}]
  /\ UNCHANGED <<lth, nonlatency>>

\* main starts, for one value of niter: "for (id = 0; ...".
MainStart ==
  /\ LAt(Main, "m_start")
  /\ \E n \in 0 .. MaxIter : lat' = [lat EXCEPT !.niter = n, !.id = 0]
  /\ lth' = [lth EXCEPT ![Main].pc = "m_for"]
  /\ UNCHANGED nonlatency

\* "id < 2": "thread_is_initialized[id] = 0; pthread_create(&thread[0], NULL,
\* launch_gpu_thread, &id);", else main goes on to start the ping pong.
MainFor ==
  /\ LAt(Main, "m_for")
  /\ IF lat.id < 2
       THEN /\ lat' = [lat EXCEPT !.thread_is_initialized[lat.id] = 0]
            /\ lth' = [lth EXCEPT ![Main].pc = "m_lock",
                                  ![lat.id].pc = "lg_start"]
       ELSE /\ lth' = [lth EXCEPT ![Main].pc = "go_lock"]
            /\ UNCHANGED lat
  /\ UNCHANGED nonlatency

\* "while (!thread_is_initialized[id]) pthread_cond_wait(&cond, &mutex);
\* pthread_mutex_unlock(&mutex);" and "id++".
MainTest ==
  /\ LAt(Main, "m_test")
  /\ IF lat.thread_is_initialized[lat.id] # 0
       THEN /\ lat' = [lat EXCEPT !.mutex = NoThread, !.id = @ + 1]
            /\ lth' = [lth EXCEPT ![Main].pc = "m_for"]
       ELSE /\ lat' = [lat EXCEPT !.mutex = NoThread, !.cond = @ \cup {Main}]
            /\ lth' = [lth EXCEPT ![Main].pc = "m_wait"]
  /\ UNCHANGED nonlatency

\* "ready = 1; pthread_cond_broadcast(&cond_go); pthread_mutex_unlock(&mutex);"
MainGo ==
  /\ LAt(Main, "go")
  /\ lat' = [lat EXCEPT !.ready = 1, !.cond_go = {}, !.mutex = NoThread]
  /\ lth' = [lth EXCEPT ![Main].pc = "mw_lock"]
  /\ UNCHANGED nonlatency

\* "while (nready_gpu > 0) pthread_cond_wait(&cond_go, &mutex);
\* pthread_mutex_unlock(&mutex);"
MainWait ==
  /\ LAt(Main, "mw_test")
  /\ IF lat.nready_gpu > 0
       THEN /\ lat' = [lat EXCEPT !.mutex = NoThread,
                                  !.cond_go = @ \cup {Main}]
            /\ lth' = [lth EXCEPT ![Main].pc = "mw_wait"]
       ELSE /\ lat' = [lat EXCEPT !.mutex = NoThread]
            /\ lth' = [lth EXCEPT ![Main].pc = "m_done"]
  /\ UNCHANGED nonlatency

\* launch_gpu_thread: "unsigned id = *idptr;", the id of main at that time.
GpuStart(t) ==
  /\ LAt(t, "lg_start")
  /\ lth' = [lth EXCEPT ![t].id = lat.id, ![t].pc = "lg_lock"]
  /\ UNCHANGED <<lat, nonlatency>>

\* "thread_is_initialized[id] = 1; pthread_cond_signal(&cond); nready_gpu++;"
GpuInit(t) ==
  /\ LAt(t, "lg_init")
  /\ \E left \in Signal(lat.cond) :
       lat' = [lat EXCEPT !.thread_is_initialized[lth[t].id] = 1,
                          !.cond = left, !.nready_gpu = @ + 1]
  /\ lth' = [lth EXCEPT ![t].pc = "lg_test"]
  /\ UNCHANGED nonlatency

\* "while (!ready) pthread_cond_wait(&cond_go, &mutex);
\* pthread_mutex_unlock(&mutex);"
GpuTestReady(t) ==
  /\ LAt(t, "lg_test")
  /\ IF lat.ready # 0
       THEN /\ lat' = [lat EXCEPT !.mutex = NoThread]
            /\ lth' = [lth EXCEPT ![t].pc = "loop"]
       ELSE /\ lat' = [lat EXCEPT !.mutex = NoThread, !.cond_go = @ \cup {t}]
            /\ lth' = [lth EXCEPT ![t].pc = "lg_wait"]
  /\ UNCHANGED nonlatency

\* "for (iter = 0; iter < niter; iter++)": device 0 sends first, device 1
\* receives first.
GpuLoop(t) ==
  /\ LAt(t, "loop")
  /\ lth' = [lth EXCEPT ![t].pc = IF lth[t].iter < lat.niter
                                   THEN IF lth[t].id = 0 THEN "sd_lock"
                                                         ELSE "rd_lock"
                                   ELSE "fin_lock"]
  /\ UNCHANGED <<lat, nonlatency>>

\* Variant: send_data without "data_is_available[src] = 0".
SendData_NoClear(t) ==
  /\ LAt(t, "sd")
  /\ LET src == lth[t].id
         dst == 1 - lth[t].id
     IN  \E left \in Signal(lat.cond_gpu) :
           lat' = [lat EXCEPT !.data_is_available =
                                [[@ EXCEPT ![src] = @] EXCEPT ![dst] = 1],
                              !.cond_gpu = left, !.mutex_gpu = NoThread]
  /\ lth' = [lth EXCEPT ![t].sends = @ + 1,
                        ![t].pc = IF lth[t].id = 0 THEN "rd_lock" ELSE "loop",
                        ![t].iter = IF lth[t].id = 0 THEN @ ELSE @ + 1]
  /\ UNCHANGED nonlatency

\* send_data(src, dst) under mutex_gpu: "data_is_available[src] = 0;
\* data_is_available[dst] = 1; pthread_cond_signal(&cond_gpu);
\* pthread_mutex_unlock(&mutex_gpu);".  Device 1 has then ended its round.
SendData(t) ==
  /\ LAt(t, "sd")
  /\ LET src == lth[t].id
         dst == 1 - lth[t].id
     IN  \E left \in Signal(lat.cond_gpu) :
           lat' = [lat EXCEPT !.data_is_available =
                                [[@ EXCEPT ![src] = 0] EXCEPT ![dst] = 1],
                              !.cond_gpu = left, !.mutex_gpu = NoThread]
  /\ lth' = [lth EXCEPT ![t].sends = @ + 1,
                        ![t].pc = IF lth[t].id = 0 THEN "rd_lock" ELSE "loop",
                        ![t].iter = IF lth[t].id = 0 THEN @ ELSE @ + 1]
  /\ UNCHANGED nonlatency

\* recv_data(src, dst) under mutex_gpu: "while (!data_is_available[dst])
\* pthread_cond_wait(&cond_gpu, &mutex_gpu); pthread_mutex_unlock(&mutex_gpu);".
\* Device 0 has then ended its round.
RecvData(t) ==
  /\ LAt(t, "rd_test")
  /\ LET dst == lth[t].id
     IN  IF lat.data_is_available[dst] # 0
           THEN /\ lat' = [lat EXCEPT !.mutex_gpu = NoThread]
                /\ lth' = [lth EXCEPT
                     ![t].recvs = @ + 1,
                     ![t].pc = IF lth[t].id = 0 THEN "loop" ELSE "sd_lock",
                     ![t].iter = IF lth[t].id = 0 THEN @ + 1 ELSE @]
           ELSE /\ lat' = [lat EXCEPT !.mutex_gpu = NoThread,
                                      !.cond_gpu = @ \cup {t}]
                /\ lth' = [lth EXCEPT ![t].pc = "rd_wait"]
  /\ UNCHANGED nonlatency

\* Variant: the thread ends without pthread_cond_signal(&cond_go).
GpuFinish_NoSignal(t) ==
  /\ LAt(t, "fin")
  /\ \E left \in {lat.cond_go} :
       lat' = [lat EXCEPT !.nready_gpu = @ - 1, !.cond_go = left,
                          !.mutex = NoThread]
  /\ lth' = [lth EXCEPT ![t].pc = "done"]
  /\ UNCHANGED nonlatency

\* "nready_gpu--; pthread_cond_signal(&cond_go); pthread_mutex_unlock(&mutex);
\* return NULL;"
GpuFinish(t) ==
  /\ LAt(t, "fin")
  /\ \E left \in Signal(lat.cond_go) :
       lat' = [lat EXCEPT !.nready_gpu = @ - 1, !.cond_go = left,
                          !.mutex = NoThread]
  /\ lth' = [lth EXCEPT ![t].pc = "done"]
  /\ UNCHANGED nonlatency

\* The steps of a thread that is able to run.
LatStep(th) ==
  \/ LatLock(th)
  \/ th = Main /\ MainStart
  \/ th = Main /\ MainFor
  \/ th = Main /\ MainTest
  \/ th = Main /\ MainGo
  \/ th = Main /\ MainWait
  \/ th \in GpuThreads /\ GpuStart(th)
  \/ th \in GpuThreads /\ GpuInit(th)
  \/ th \in GpuThreads /\ GpuTestReady(th)
  \/ th \in GpuThreads /\ GpuLoop(th)
  \/ th \in GpuThreads /\ SendData(th)
  \/ th \in GpuThreads /\ RecvData(th)
  \/ th \in GpuThreads /\ GpuFinish(th)

LatencyNext ==
  \/ \E th \in GpuThreads \cup {Main} : LatStep(th)
  \/ \E th \in GpuThreads \cup {Main} : SpuriousWake(th)

LatencySpec == WorkersInit /\ [][LatencyNext]_vars

\* A thread that is able to run again and again does run: the mutexes are
\* handed over fairly.  Spurious wake-ups need not happen.
LatencyLiveSpec ==
  LatencySpec /\ \A th \in GpuThreads \cup {Main} : SF_vars(LatStep(th))

\* The thread has been let go: it is in its rounds or past them.
InRounds(t) ==
  lth[t].pc \in {"loop", "sd_lock", "sd", "rd_lock", "rd_test", "rd_wait",
                 "fin_lock", "fin", "done"}

\* C35: the two GPU threads strictly alternate: each drives its own device,
\* a recv_data has returned only if the peer's send_data of the same round
\* has marked the data available, device 0 is never more than one send ahead
\* of device 1, at most one of data_is_available[0] and data_is_available[1]
\* is set, and no thread is in its rounds before main has set ready.
C35_StrictAlternation ==
  /\ lat.data_is_available[0] + lat.data_is_available[1] <= 1
  /\ \A t \in GpuThreads : InRounds(t) => lat.ready = 1 /\ lth[t].id = t
  /\ lth[1].recvs <= lth[0].sends
  /\ lth[0].recvs <= lth[1].sends
  /\ lth[1].sends <= lth[0].sends
  /\ lth[0].sends <= lth[1].sends + 1

\* Both devices have sent and received in every round of the longest
\* ping-pong.
C35_Witness ==
  /\ lat.niter = MaxIter
  /\ \A t \in GpuThreads : lth[t].sends = MaxIter /\ lth[t].recvs = MaxIter

\* C36: the ping-pong terminates for every niter: main sets ready with
\* nready_gpu = 2, its wait for nready_gpu = 0 has returned only if both
\* threads have finished their niter rounds, and it does return.
C36_Terminates ==
  /\ [](lth[Main].pc = "go" => lat.nready_gpu = 2)
  /\ [](lth[Main].pc = "m_done" =>
          \A t \in GpuThreads :
            lth[t].pc = "done" /\ lth[t].iter = lat.niter)
  /\ <>(lth[Main].pc = "m_done")

\* main has returned from its wait after the longest ping-pong.
C36_Witness ==
  lth[Main].pc = "m_done" /\ lat.niter = MaxIter /\ lat.nready_gpu = 0

====
